---- MODULE Spec2Model ----
(***************************************************************************)
(* rclaude: the refactored core (src/rclaude/core, src/rclaude/frontends,  *)
(* src/rclaude/server/app.py) as a state machine.                          *)
(*                                                                         *)
(* Strings whose content is inspected by the code (Bash commands, file     *)
(* paths, permission patterns, allow rules) are sequences of one-character *)
(* strings; a tool name inside a rule is one element of the sequence.      *)
(***************************************************************************)
EXTENDS Integers, Sequences, FiniteSets, Bags, TLC

\* ------------------------------------------------------------------ bounds
MaxCmdLen == 3      \* longest Bash command (characters)
MaxOutLen == 2      \* longest raw answer of the pattern-writing model
MaxRules == 1       \* rules in the allow-list before the user stops pressing 'always'
MaxHandlers == 1    \* permission_handler invocations in progress at once
MaxConcurrent == 2  \* the same where the handlers of two tool calls run side by side
MaxUpdates == 2     \* chat updates (messages, button presses) being handled at once
MaxTurns == 2       \* coroutines inside _query_and_process at once
MaxInflight == 2    \* queries the agent has not yet answered with a result
MaxQuestions == 2   \* questions in one AskUserQuestion
MaxInputs == 4      \* chat updates and server requests in one run
MaxConsumers == 2   \* GET /stream connections open at once
MaxWritten == 3     \* frames written to one connection before its keepalives stop
MaxMessages == 4    \* messages (blocks) the agent streams in one turn

\* ------------------------------------------------------- program constants
max_retries == 2
APPROVAL_REQUIRED_TOOLS == {"Edit", "Write", "Bash", "NotebookEdit"}
EDIT_TOOLS == {"Edit", "Write", "NotebookEdit", "MultiEdit"}
VALID_MODES == {"default", "acceptEdits", "plan", "bypassPermissions"}

\* ---------------------------------------------------------------- strings
Chars == {"a", " ", "'", "*"}

RECURSIVE StrsOfLen(_)
StrsOfLen(n) == IF n = 0 THEN {<<>>}
                ELSE {Append(s, c) : s \in StrsOfLen(n - 1), c \in Chars}

StrsUpTo(n) == UNION {StrsOfLen(k) : k \in 0..n}

\* str.split(): the maximal runs of non-whitespace characters
RECURSIVE SplitFrom(_, _, _, _)
SplitFrom(s, i, cur, acc) ==
    IF i > Len(s) THEN (IF cur = <<>> THEN acc ELSE Append(acc, cur))
    ELSE IF s[i] = " "
         THEN SplitFrom(s, i + 1, <<>>, IF cur = <<>> THEN acc ELSE Append(acc, cur))
         ELSE SplitFrom(s, i + 1, Append(cur, s[i]), acc)

split(s) == SplitFrom(s, 1, <<>>, <<>>)

\* shlex.split(s), POSIX mode: whitespace separates tokens, '...' quotes;
\* an unclosed quote raises ValueError (ok = FALSE)
RECURSIVE ShlexFrom(_, _, _, _, _, _)
ShlexFrom(s, i, cur, started, quoted, acc) ==
    IF i > Len(s)
    THEN IF quoted THEN [ok |-> FALSE, tokens |-> <<>>]
         ELSE [ok |-> TRUE, tokens |-> IF started THEN Append(acc, cur) ELSE acc]
    ELSE IF quoted
         THEN IF s[i] = "'"
              THEN ShlexFrom(s, i + 1, cur, TRUE, FALSE, acc)
              ELSE ShlexFrom(s, i + 1, Append(cur, s[i]), TRUE, TRUE, acc)
         ELSE IF s[i] = " "
              THEN ShlexFrom(s, i + 1, <<>>, FALSE, FALSE,
                             IF started THEN Append(acc, cur) ELSE acc)
              ELSE IF s[i] = "'"
                   THEN ShlexFrom(s, i + 1, cur, TRUE, TRUE, acc)
                   ELSE ShlexFrom(s, i + 1, Append(cur, s[i]), TRUE, FALSE, acc)

shlex_split(s) == ShlexFrom(s, 1, <<>>, FALSE, FALSE, <<>>)

\* s.rstrip(chars)
RECURSIVE rstrip(_, _)
rstrip(s, chars) ==
    IF s # <<>> /\ s[Len(s)] \in chars THEN rstrip(SubSeq(s, 1, Len(s) - 1), chars) ELSE s

RECURSIVE lstrip(_, _)
lstrip(s, chars) ==
    IF s # <<>> /\ s[1] \in chars THEN lstrip(SubSeq(s, 2, Len(s)), chars) ELSE s

\* s.strip()
strip(s) == lstrip(rstrip(s, {" "}), {" "})

endswith(s, suffix) ==
    /\ Len(s) >= Len(suffix)
    /\ SubSeq(s, Len(s) - Len(suffix) + 1, Len(s)) = suffix

\* dict.get(key, ''): a tool input is a one-key dict [key, value]
Get(input_data, key) == IF input_data.key = key THEN input_data.value ELSE <<>>

\* f'{tool}({body})'
Rule(tool, body) == <<tool, "(">> \o body \o <<")">>

IndexError == <<"IndexError">>

\* command.split()[0] if command else ''   (raises IndexError on a blank command)
first_word(command) ==
    IF command = <<>> THEN <<>>
    ELSE IF split(command) = <<>> THEN IndexError
    ELSE split(command)[1]

generate_permission_rule(tool_name, input_data) ==
    IF tool_name = "Bash"
    THEN LET base_cmd == first_word(Get(input_data, "command"))
         IN  IF base_cmd = IndexError THEN IndexError
             ELSE Rule("Bash", base_cmd \o <<":", "*">>)
    ELSE IF tool_name = "Edit"
    THEN Rule("Edit", <<"/", "/">> \o Get(input_data, "file_path"))
    ELSE IF tool_name = "Write"
    THEN Rule("Write", <<"/", "/">> \o Get(input_data, "file_path"))
    ELSE IF tool_name = "NotebookEdit"
    THEN Rule("NotebookEdit", <<"/", "/">> \o Get(input_data, "notebook_path"))
    ELSE Rule(tool_name, <<"*">>)

\* "True", "False", or "IndexError" when the rule cannot be generated
check_permission_rule(tool_name, input_data, allow) ==
    LET generated_rule == generate_permission_rule(tool_name, input_data)
    IN  IF generated_rule = IndexError THEN "IndexError"
        ELSE IF generated_rule \in allow THEN "True"
        ELSE IF tool_name = "Bash"
        THEN LET base_cmd == first_word(Get(input_data, "command"))
             IN  IF Rule("Bash", base_cmd \o <<":", "*">>) \in allow THEN "True"
                 ELSE IF Rule("Bash", <<"*">>) \in allow THEN "True"
                 ELSE "False"
        ELSE "False"

should_auto_allow(tool_name, input_data, mode, allow) ==
    IF mode = "bypassPermissions" THEN "True"
    ELSE IF mode = "acceptEdits" /\ tool_name \in EDIT_TOOLS THEN "True"
    ELSE IF tool_name \notin APPROVAL_REQUIRED_TOOLS THEN "True"
    ELSE check_permission_rule(tool_name, input_data, allow)


\* --------------------------------------------- smart Bash rule generation
\* _pattern_matches_command: the pattern's tokens are an ordered subsequence
\* of the command's tokens
RECURSIVE IsSubsequence(_, _)
IsSubsequence(pattern_tokens, command_tokens) ==
    IF pattern_tokens = <<>> THEN TRUE
    ELSE IF command_tokens = <<>> THEN FALSE
    ELSE IF command_tokens[1] = pattern_tokens[1]
         THEN IsSubsequence(Tail(pattern_tokens), Tail(command_tokens))
         ELSE IsSubsequence(pattern_tokens, Tail(command_tokens))

_pattern_matches_command(pattern, command) ==
    IF ~endswith(pattern, <<" ", "*">>) /\ pattern # <<"*">> /\ ~endswith(pattern, <<"*">>)
    THEN FALSE
    ELSE LET pattern_prefix == strip(rstrip(pattern, {" ", "*"}))
             both_ok == shlex_split(pattern_prefix).ok /\ shlex_split(command).ok
             pattern_tokens == IF both_ok THEN shlex_split(pattern_prefix).tokens
                               ELSE split(pattern_prefix)
             command_tokens == IF both_ok THEN shlex_split(command).tokens
                               ELSE split(command)
         IN  IF pattern_prefix = <<>> THEN TRUE
             ELSE IF command_tokens = <<>> THEN FALSE
             ELSE IsSubsequence(pattern_tokens, command_tokens)

_is_pattern_too_broad(pattern) == strip(rstrip(pattern, {" ", "*"})) = <<>>

\* _generate_pattern_once: the model's text, stripped and made to end in ' *'
_generate_pattern_once(result) ==
    LET pattern == strip(result)
    IN  IF endswith(pattern, <<" ", "*">>) THEN pattern
        ELSE IF endswith(pattern, <<"*">>)
             THEN rstrip(SubSeq(pattern, 1, Len(pattern) - 1), {" "}) \o <<" ", "*">>
             ELSE pattern \o <<" ", "*">>

\* what one call of the pattern-writing model gives: a text, or an exception
QueryError == <<"QueryError">>
ModelOutputs == StrsUpTo(MaxOutLen) \cup {QueryError}

\* base_cmd of generate_smart_bash_rule (IndexError leaves the function)
smart_base_cmd(command) ==
    LET sh == shlex_split(command)
    IN  IF sh.ok /\ sh.tokens # <<>> THEN sh.tokens[1]
        ELSE IF sh.ok
             THEN (IF command = <<>> THEN <<"unknown">> ELSE first_word(command))
             ELSE first_word(command)

Retry == <<"Retry">>

\* one pass of the retry loop of generate_smart_bash_rule
smart_attempt(command, output) ==
    IF output = QueryError THEN Retry
    ELSE LET pattern == _generate_pattern_once(output)
         IN  IF ~_pattern_matches_command(pattern, command) THEN Retry
             ELSE IF _is_pattern_too_broad(pattern) THEN Retry
             ELSE Rule("Bash", pattern)

smart_fallback(command) == Rule("Bash", smart_base_cmd(command) \o <<":", "*">>)

\* add_permission_rule: append unless present
add_permission_rule(allow, rule) == allow \cup {rule}


\* ------------------------------------------------------------------ state
VARIABLES
    client,                        \* Session.client: TRUE when a handle is stored
    claude_session_id,             \* Session.claude_session_id: "" is None
    is_processing,                 \* Session.is_processing
    pending_question,              \* Session.pending_question: 0 is None, 1 the object `question`
    pending_permission,            \* Session.pending_permission: 0 is None, h the object perm[h]
    waiting_for_rejection_reason,  \* Session.waiting_for_rejection_reason
    waiting_for_answer,            \* context.user_data['waiting_for_answer']
    permission_mode,               \* Session.permission_mode
    question,                      \* the PendingQuestion object created last
    rules,                         \* permissions.allow of <cwd>/.claude/settings.local.json
    hpc,                           \* position of each permission_handler invocation
    hargs,                         \* tool_name and input_data each invocation was called with
    perm,                          \* the PendingPermission object of each invocation
    hret,                          \* what each invocation returned to the agent
    upd,                           \* chat updates being handled, with their position
    turns,                         \* number of _query_and_process coroutines at each position
    inflight,                      \* queries sent to the agent whose result was not yet read
    always_log,                    \* tool calls whose wait an 'always' press resolved (history)
    reason_log,                    \* the deny a text message recorded on each pending (history)
    snapshot,                      \* SESSION_STATE_FILE: what save_state left in it
    inputs,                        \* chat updates and server requests received so far
    keyboards,                     \* kinds of inline keyboard on display in the chat
    pending_teleport,              \* TelegramFrontend._pending_teleports[user_id]
    terminal_id,                   \* Session.terminal_id: "" is None
    cwd,                           \* Session.cwd
    resume,                        \* ClaudeAgentOptions.resume of the client created last
    request,                       \* the body of the POST /teleport being read
    accepted,                      \* the teleports stored so far, oldest first (history)
    event_queue,                   \* Session.event_queue
    sse,                           \* the handle_stream coroutines: position, terminal, bytes written,
                                   \*   and how many events at the head of the queue were put
                                   \*   before the consumer connected (history)
    _sse_connection_count,         \* app._sse_connection_count
    produced,                      \* events the response streams have yielded (history)
    reload_pending,                \* app['reload_pending']
    force_reload,                  \* app['force_reload']
    shutdown_event,                \* app._shutdown_event is set
    wrapper_pid,                   \* RCLAUDE_WRAPPER_PID is in the environment
    state_file,                    \* SESSION_STATE_FILE as text: absent, or what was written
    _sessions,                     \* SessionManager: frontend user id -> its Session
    received,                      \* what client.receive_response() is still to deliver
    yielded                        \* the events one process_response has yielded

vars == <<client, claude_session_id, is_processing, pending_question, pending_permission,
          waiting_for_rejection_reason, waiting_for_answer, permission_mode, question,
          rules, hpc, hargs, perm, hret, upd, turns, inflight, always_log, reason_log, snapshot, inputs,
          keyboards, pending_teleport, terminal_id, cwd, resume, request, accepted,
          event_queue, sse, _sse_connection_count, produced,
          reload_pending, force_reload, shutdown_event, wrapper_pid, state_file, _sessions,
          received, yielded>>

sessionVars == <<client, claude_session_id, is_processing, pending_question,
                 waiting_for_rejection_reason, waiting_for_answer, permission_mode>>

teleVars == <<pending_teleport, terminal_id, cwd, resume, request, accepted>>
sseVars == <<event_queue, sse, _sse_connection_count, produced>>
flagVars == <<reload_pending, force_reload>>
downVars == <<shutdown_event, wrapper_pid>>
fileVars == <<state_file, _sessions>>
respVars == <<received, yielded>>
srvVars == <<flagVars, downVars, fileVars, respVars>>
extVars == <<keyboards, teleVars, sseVars, srvVars>>

Handlers == 1..MaxHandlers
AllHandlers == 1..MaxConcurrent
Slots == 1..MaxUpdates
Consumers == 1..MaxConsumers
Texts == {"t1", "t2"}
Terminals == {"T1", "T2"}

\* PermissionResultAllow / PermissionResultDeny
NoResult == [behavior |-> "none", message |-> "", interrupt |-> FALSE]
Allow == [behavior |-> "allow", message |-> "", interrupt |-> FALSE]
Deny(message) == [behavior |-> "deny", message |-> message, interrupt |-> FALSE]

NoInput == [key |-> "", value |-> <<>>]
NoCall == [tool_name |-> "", input_data |-> NoInput]
NoPending == [tool_name |-> "", input_data |-> NoInput, event |-> FALSE, result |-> NoResult]
NoQuestion == [n |-> 0, current_question_idx |-> 0, answers |-> <<>>]
NoSnapshot == [claude_session_id |-> "", terminal_id |-> "", cwd |-> "/",
               is_processing |-> FALSE, permission_mode |-> "default"]
NoTeleport == [session_id |-> "", cwd |-> "", terminal_id |-> "", permission_mode |-> ""]
NoRequest == [session_id |-> "", cwd |-> "", terminal_id |-> "", permission_mode |-> ""]
NoFile == [kind |-> "absent", data |-> <<>>]
NoStream == [pc |-> "closed", terminal_id |-> "", written |-> <<>>, since |-> 0, stale |-> 0]
NoUpdate == [kind |-> "none", pc |-> "", data |-> <<>>, ref |-> 0, attempt |-> 0, user |-> ""]

TurnPCs == {"connecting", "fetch", "query", "recv", "asked", "abandoned", "closed"}
NoTurns == [p \in TurnPCs |-> 0]
NTurns == turns["connecting"] + turns["fetch"] + turns["query"] + turns["recv"]
          + turns["asked"] + turns["abandoned"] + turns["closed"]

Move(from, to) == [turns EXCEPT ![from] = @ - 1, ![to] = @ + 1]
Leave(from) == [turns EXCEPT ![from] = @ - 1]
Enter(to) == [turns EXCEPT ![to] = @ + 1]

Referenced(h) == \E i \in Slots : upd[i].ref = h

\* ------------------------------------------------- permission_handler
\* The agent asks to use a tool: should_auto_allow, else a PendingPermission
\* is created, stored on the session, and the approval UI send is awaited.
permission_handler(h, tool_name, input_data) ==
    /\ hpc[h] = "idle"
    /\ ~Referenced(h)
    /\ hargs' = [hargs EXCEPT ![h] = [tool_name |-> tool_name, input_data |-> input_data]]
    /\ LET auto == should_auto_allow(tool_name, input_data, permission_mode, rules)
       IN  IF auto = "True"
           THEN /\ hpc' = [hpc EXCEPT ![h] = "returned"]
                /\ hret' = [hret EXCEPT ![h] = Allow]
                /\ perm' = [perm EXCEPT ![h] = NoPending]
                /\ UNCHANGED pending_permission
           ELSE IF auto = "IndexError"
           THEN /\ hpc' = [hpc EXCEPT ![h] = "raised"]
                /\ hret' = [hret EXCEPT ![h] = NoResult]
                /\ perm' = [perm EXCEPT ![h] = NoPending]
                /\ UNCHANGED pending_permission
           ELSE /\ hpc' = [hpc EXCEPT ![h] = "sending"]
                /\ hret' = [hret EXCEPT ![h] = NoResult]
                /\ perm' = [perm EXCEPT ![h] = [tool_name |-> tool_name,
                                                 input_data |-> input_data,
                                                 event |-> FALSE, result |-> NoResult]]
                /\ pending_permission' = h
    /\ reason_log' = [reason_log EXCEPT ![h] = NoResult]
    /\ UNCHANGED <<sessionVars, question, rules, upd, turns, inflight, always_log, snapshot, inputs, extVars>>

CanUseTool(h, tool_name, input_data) ==
    /\ client
    /\ inflight > 0
    /\ permission_handler(h, tool_name, input_data)

\* the kind of keyboard sent with a permission request: edit tools get
\* 'Accept Edits' where the other tools get 'Always'
create_permission_keyboard(tool_name) == IF tool_name \in EDIT_TOOLS THEN "edit" ELSE "other"

\* the callback data of the buttons of each kind of keyboard
Buttons(kind) ==
    IF kind = "edit"
    THEN {<<"perm", "allow">>, <<"perm", "accept_edits">>, <<"perm", "reject">>}
    ELSE IF kind = "other"
    THEN {<<"perm", "allow">>, <<"perm", "always">>, <<"perm", "reject">>}
    ELSE {<<"q", "0", "0">>, <<"q", "0", "1">>, <<"q", "0", "other">>}

\* request_permission returned within the 10 s: the keyboard is in the chat,
\* block on pending.event
SendDelivered(h) ==
    /\ hpc[h] = "sending"
    /\ hpc' = [hpc EXCEPT ![h] = "waiting"]
    /\ keyboards' = keyboards \cup {create_permission_keyboard(perm[h].tool_name)}
    /\ UNCHANGED <<sessionVars, pending_permission, question, rules, hargs, perm, hret, upd,
                   turns, inflight, always_log, reason_log, snapshot, inputs, teleVars,
                   sseVars,
                   srvVars>>

\* a fail-open that leaves the pending on the session
FailOpenKeepsPending(h) ==
    /\ pending_permission' = pending_permission
    /\ hpc' = [hpc EXCEPT ![h] = "returned"]
    /\ hret' = [hret EXCEPT ![h] = Allow]

\* asyncio.TimeoutError or any exception of the send: fail open
FailOpen(h) ==
    /\ pending_permission' = 0
    /\ hpc' = [hpc EXCEPT ![h] = "returned"]
    /\ hret' = [hret EXCEPT ![h] = Allow]

SendFailed(h) ==
    /\ hpc[h] = "sending"
    /\ FailOpen(h)
    /\ UNCHANGED <<sessionVars, question, rules, hargs, perm, upd, turns, inflight,
                   always_log, reason_log, snapshot, inputs, extVars>>

\* a wait that does not wait
WaitOverAtOnce(h) == TRUE

\* pending.event.wait() returns once the event is set
WaitOver(h) == perm[h].event

\* after the wait: clear the slot, return pending.result (deny if none)
Resolve(h) ==
    /\ pending_permission' = 0
    /\ hpc' = [hpc EXCEPT ![h] = "returned"]
    /\ hret' = [hret EXCEPT ![h] = IF perm[h].result # NoResult THEN perm[h].result
                                   ELSE Deny("No response received")]

HandlerWakes(h) ==
    /\ hpc[h] = "waiting"
    /\ WaitOver(h)
    /\ Resolve(h)
    /\ UNCHANGED <<sessionVars, question, rules, hargs, perm, upd, turns, inflight,
                   always_log, reason_log, snapshot, inputs, extVars>>

\* the SDK passes the handler's answer (or its exception) on to the agent;
\* the invocation's objects are dropped once no callback holds the pending
AgentTakes(h) ==
    /\ hpc[h] \in {"returned", "raised"}
    /\ ~Referenced(h)
    /\ hpc' = [hpc EXCEPT ![h] = "idle"]
    /\ hret' = [hret EXCEPT ![h] = NoResult]
    /\ hargs' = [hargs EXCEPT ![h] = NoCall]
    /\ perm' = [perm EXCEPT ![h] = NoPending]
    /\ reason_log' = [reason_log EXCEPT ![h] = NoResult]
    /\ UNCHANGED <<sessionVars, pending_permission, question, rules, upd, turns, inflight,
                   always_log, snapshot, inputs, extVars>>


\* ------------------------------------------------------------ chat updates
\* the dispatch of concurrent_updates(False): one update at a time, the next
\* one only after the handler of the previous one has returned
sequential_updates(i) ==
    /\ NTurns = 0
    /\ \A j \in Slots \ {i} : upd[j].pc \in {"", "arrived"}

\* Application.builder().concurrent_updates(True): an update is dispatched
\* to its handler whatever other handlers are still running
concurrent_updates(i) == TRUE

\* one more update or request reaches the server
Received ==
    /\ inputs < MaxInputs
    /\ inputs' = inputs + 1

\* the chat identity the bot serves (config.telegram.user_id) and the ones
\* an update can come from; "" is an update without effective_user
allowed_user_id == "owner"
Users == {"owner", "stranger", ""}

\* a check that lets every update through
no_check_auth(user) == TRUE

\* _check_auth: no effective_user, or one that is not the allowed id: False
_check_auth(user) == user # "" /\ user = allowed_user_id

\* an update of a user is handed to its handler
ArriveFrom(i, kind, data, user) ==
    /\ upd[i] = NoUpdate
    /\ \A j \in Slots : j < i => upd[j] # NoUpdate
    /\ upd' = [upd EXCEPT ![i] = [kind |-> kind, pc |-> "arrived", data |-> data,
                                  ref |-> 0, attempt |-> 0, user |-> user]]
    /\ Received
    /\ UNCHANGED <<sessionVars, pending_permission, question, rules, hpc, hargs, perm, hret,
                   turns, inflight, always_log, reason_log, snapshot, extVars>>

\* an update of the permitted user
Arrive(i, kind, data) == ArriveFrom(i, kind, data, allowed_user_id)

\* the user sends a text message / presses an inline button
UserText(i, text) == Arrive(i, "message", <<text>>)
\* a button can be pressed while a keyboard that carries it is on display,
\* each button once until its press is handled; an 'always' press is made
\* only while the allow-list has room for its rule
UserPress(i, data) ==
    /\ \E kind \in keyboards : data \in Buttons(kind)
    /\ \A j \in Slots : upd[j].data # data
    /\ data = <<"perm", "always">> =>
           Cardinality(rules) + Cardinality({j \in Slots : upd[j].data = data}) < MaxRules
    /\ Arrive(i, "callback", data)

Done(i) == upd' = [upd EXCEPT ![i] = NoUpdate]
Goto(i, pc, h) == upd' = [upd EXCEPT ![i].pc = pc, ![i].ref = h]

\* pending.result = ...; then the chat edit is awaited before pending.event.set()
SetResult(h, result) == perm' = [perm EXCEPT ![h].result = result]

\* the rule of an 'always' press is saved and the pending allowed
Persist(i, h, rule) ==
    /\ rules' = add_permission_rule(rules, rule)
    /\ SetResult(h, Allow)
    /\ Goto(i, "editing", h)
    /\ always_log' = IF hpc[h] = "waiting" /\ pending_permission = h /\ ~perm[h].event
                     THEN always_log \cup {[tool_name |-> perm[h].tool_name,
                                            input_data |-> perm[h].input_data]}
                     ELSE always_log

\* _handle_permission_callback, up to its first await after reading the pending
_handle_permission_callback(i, action) ==
    LET h == pending_permission IN
    IF h = 0
    THEN /\ Done(i)
         /\ UNCHANGED <<sessionVars, rules, perm, always_log>>
    ELSE IF action = "allow"
    THEN /\ SetResult(h, Allow)
         /\ Goto(i, "editing", h)
         /\ UNCHANGED <<sessionVars, rules, always_log>>
    ELSE IF action = "always"
    THEN IF perm[h].tool_name = "Bash"
         THEN IF smart_base_cmd(Get(perm[h].input_data, "command")) = IndexError
              THEN /\ Done(i)
                   /\ UNCHANGED <<sessionVars, rules, perm, always_log>>
              ELSE /\ Goto(i, "generating", h)
                   /\ UNCHANGED <<sessionVars, rules, perm, always_log>>
         ELSE /\ Persist(i, h, generate_permission_rule(perm[h].tool_name,
                                                         perm[h].input_data))
              /\ UNCHANGED sessionVars
    ELSE IF action = "accept_edits"
    THEN /\ permission_mode' = "acceptEdits"
         /\ SetResult(h, Allow)
         /\ Goto(i, "editing", h)
         /\ UNCHANGED <<client, claude_session_id, is_processing, pending_question,
                        waiting_for_rejection_reason, waiting_for_answer, rules, always_log>>
    ELSE IF action = "reject"
    THEN /\ waiting_for_rejection_reason' = TRUE
         /\ Done(i)
         /\ UNCHANGED <<client, claude_session_id, is_processing, pending_question,
                        waiting_for_answer, permission_mode, rules, perm, always_log>>
    ELSE /\ Done(i)
         /\ UNCHANGED <<sessionVars, rules, perm, always_log>>

\* one awaited call of the pattern-writing model inside generate_smart_bash_rule
SmartAttempt(i, output) ==
    /\ upd[i].pc = "generating"
    /\ LET h == upd[i].ref
           command == Get(perm[h].input_data, "command")
           rule == smart_attempt(command, output)
       IN  IF rule # Retry THEN Persist(i, h, rule)
           ELSE IF upd[i].attempt = max_retries THEN Persist(i, h, smart_fallback(command))
           ELSE /\ upd' = [upd EXCEPT ![i].attempt = @ + 1]
                /\ UNCHANGED <<rules, perm, always_log>>
    /\ UNCHANGED <<sessionVars, pending_permission, question, hpc, hargs, hret, turns,
                   inflight, reason_log, snapshot, inputs, extVars>>

\* the chat edit is done: pending.event.set()
CallbackSetsEvent(i) ==
    /\ upd[i].pc = "editing"
    /\ perm' = [perm EXCEPT ![upd[i].ref].event = TRUE]
    /\ Done(i)
    /\ UNCHANGED <<sessionVars, pending_permission, question, rules, hpc, hargs, hret, turns,
                   inflight, always_log, reason_log, snapshot, inputs, extVars>>

\* validate_permission_mode: a mode that is none of the four is 'default'
validate_permission_mode(mode) == IF mode \in VALID_MODES THEN mode ELSE "default"

\* _handle_mode_callback: the mode of the payload, validated, becomes the
\* session's mode
_handle_mode_callback(i, mode) ==
    /\ permission_mode' = validate_permission_mode(mode)
    /\ Done(i)
    /\ UNCHANGED <<client, claude_session_id, is_processing, pending_question,
                   waiting_for_rejection_reason, waiting_for_answer>>

\* ------------------------------------------------------ question callbacks
\* the options of every question asked: two, as the keyboard's q:0:0, q:0:1
options == <<"yes", "no">>

\* int(answer) on the texts a payload carries as its third part
ValueError == [ok |-> FALSE, value |-> 0]
int(answer) ==
    IF answer = "0" THEN [ok |-> TRUE, value |-> 0]
    ELSE IF answer = "1" THEN [ok |-> TRUE, value |-> 1]
    ELSE IF answer = "9" THEN [ok |-> TRUE, value |-> 9]
    ELSE IF answer = "-1" THEN [ok |-> TRUE, value |-> -1]
    ELSE ValueError

\* options[answer_idx]['label'] if answer_idx < len(options) else answer, and
\* answer on ValueError and IndexError; a negative index counts from the end
selected_label(answer) ==
    LET answer_idx == int(answer) IN
    IF ~answer_idx.ok THEN answer
    ELSE IF answer_idx.value >= Len(options) THEN answer
    ELSE IF answer_idx.value >= 0 THEN options[answer_idx.value + 1]
    ELSE IF -answer_idx.value <= Len(options)
         THEN options[Len(options) + answer_idx.value + 1]
    ELSE answer

\* pending.answers[current_q['question']] = label; current_question_idx += 1
Answered(label) ==
    [question EXCEPT !.answers[question.current_question_idx + 1] = label,
                     !.current_question_idx = @ + 1]

\* _query_and_process up to its await of client.query: nothing without a handle
_query_and_process ==
    IF client
    THEN /\ NTurns < MaxTurns
         /\ turns' = Enter("query")
    ELSE UNCHANGED turns

_submit_question_answers ==
    /\ pending_question' = 0
    /\ _query_and_process

\* _handle_question_callback, up to its first await after reading the pending
_handle_question_callback(i, data) ==
    IF pending_question = 0 \/ Len(data) < 3
    THEN /\ Done(i)
         /\ UNCHANGED <<sessionVars, question>>
    ELSE IF question.current_question_idx >= question.n
    THEN /\ Done(i)                       \* pending.questions[idx]: IndexError
         /\ UNCHANGED <<sessionVars, question>>
    ELSE IF data[3] = "other"
    THEN /\ waiting_for_answer' = TRUE
         /\ Done(i)
         /\ UNCHANGED <<client, claude_session_id, is_processing, pending_question,
                        waiting_for_rejection_reason, permission_mode, question>>
    ELSE /\ question' = Answered(selected_label(data[3]))
         /\ Goto(i, "q_edit", 0)
         /\ UNCHANGED sessionVars

\* query.edit_message_text replaces the message the pressed button was on,
\* keyboard included; the branches of the two handlers edit it, except the
\* ones that return or raise before: an action that is none of the four, a
\* payload of two parts, IndexError
edited(data) ==
    IF data[1] = "perm"
    THEN IF data[2] = "always" THEN {"other"}
         ELSE IF data[2] = "accept_edits" THEN {"edit"}
         ELSE IF data[2] \in {"allow", "reject"} \/ pending_permission = 0
              THEN {"edit", "other"}
         ELSE {}
    ELSE IF data[1] = "q"
    THEN IF pending_question # 0
            /\ (Len(data) < 3 \/ question.current_question_idx >= question.n)
         THEN {} ELSE {"q"}
    ELSE {}

\* _handle_callback: query.answer(), then dispatch on the prefix of the data
HandleCallback(i) ==
    /\ upd[i].kind = "callback"
    /\ upd[i].pc = "arrived"
    /\ _check_auth(upd[i].user)
    /\ concurrent_updates(i)
    /\ LET data == upd[i].data
       IN  IF data[1] = "perm"
           THEN /\ _handle_permission_callback(i, data[2])
                /\ UNCHANGED question
           ELSE IF data[1] = "q"
           THEN /\ _handle_question_callback(i, data)
                /\ UNCHANGED <<rules, perm, always_log>>
           ELSE IF data[1] = "mode"
           THEN /\ _handle_mode_callback(i, data[2])
                /\ UNCHANGED <<question, rules, perm, always_log>>
           ELSE /\ Done(i)
                /\ UNCHANGED <<sessionVars, question, rules, perm, always_log>>
    /\ keyboards' = keyboards \ edited(upd[i].data)
    /\ UNCHANGED <<pending_permission, hpc, hargs, hret, turns, inflight, reason_log,
                   snapshot, inputs, teleVars, sseVars,
                   srvVars>>

\* the 'Selected' edit is done: show the next question or submit the answers
QuestionCallbackContinues(i) ==
    /\ upd[i].pc = "q_edit"
    /\ Done(i)
    /\ IF question.current_question_idx < question.n
       THEN /\ keyboards' = keyboards \cup {"q"}       \* the next question is sent
            /\ UNCHANGED <<pending_question, turns>>
       ELSE /\ _submit_question_answers
            /\ UNCHANGED keyboards
    /\ UNCHANGED <<client, claude_session_id, is_processing, waiting_for_rejection_reason,
                   waiting_for_answer, permission_mode, pending_permission, question, rules,
                   hpc, hargs, perm, hret, inflight, always_log, reason_log, snapshot, inputs,
                   teleVars, sseVars,
                   srvVars>>

\* ------------------------------------------------------------ text messages
\* create_client up to its await of connect(): the options are built from
\* the session, resume = session.claude_session_id
create_client == claude_session_id

\* the same inspection with the custom answer looked at first
answer_first(rejection, answer) ==
    IF answer THEN "b" ELSE IF rejection THEN "a" ELSE "c"

\* the order in which _handle_message inspects the session's flags
consumed_as(rejection, answer) ==
    IF rejection THEN "a" ELSE IF answer THEN "b" ELSE "c"

HandleMessage(i) ==
    /\ upd[i].kind = "message"
    /\ _check_auth(upd[i].user)
    /\ \/ upd[i].pc = "arrived" /\ pending_teleport = NoTeleport
       \/ upd[i].pc = "teleported"
    /\ upd[i].pc = "arrived" => concurrent_updates(i)
    /\ Done(i)
    /\ LET text == upd[i].data[1]
           h == pending_permission
           as == consumed_as(waiting_for_rejection_reason /\ h # 0,
                             waiting_for_answer /\ pending_question # 0)
       IN  IF as = "a"
           THEN /\ waiting_for_rejection_reason' = FALSE
                /\ perm' = [perm EXCEPT ![h].result = Deny(text), ![h].event = TRUE]
                /\ reason_log' = [reason_log EXCEPT ![h] = Deny(text)]
                /\ UNCHANGED <<client, claude_session_id, is_processing, pending_question,
                               waiting_for_answer, permission_mode, question, turns,
                               keyboards, resume>>
           ELSE IF as = "b"
           THEN /\ waiting_for_answer' = FALSE
                /\ IF question.current_question_idx >= question.n
                   THEN UNCHANGED <<question, pending_question, turns, keyboards>> \* IndexError
                   ELSE /\ question' = Answered(text)
                        /\ IF question.current_question_idx + 1 < question.n
                           THEN /\ keyboards' = keyboards \cup {"q"}
                                /\ UNCHANGED <<pending_question, turns>>
                           ELSE /\ _submit_question_answers
                                /\ UNCHANGED keyboards
                /\ UNCHANGED <<client, claude_session_id, is_processing,
                               waiting_for_rejection_reason, permission_mode, perm,
                               reason_log, resume>>
           ELSE /\ NTurns < MaxTurns
                /\ IF client
                   THEN /\ is_processing' = TRUE
                        /\ turns' = Enter("query")
                        /\ UNCHANGED resume
                   ELSE /\ turns' = Enter("connecting")
                        /\ resume' = create_client
                        /\ UNCHANGED is_processing
                /\ UNCHANGED <<client, claude_session_id, pending_question,
                               waiting_for_rejection_reason, waiting_for_answer,
                               permission_mode, question, perm, reason_log, keyboards>>
    /\ UNCHANGED <<pending_permission, rules, hpc, hargs, hret, inflight, always_log,
                   snapshot, inputs, pending_teleport, terminal_id, cwd, request, accepted, sseVars,
                   srvVars>>

\* ------------------------------------------------------------------ turns
\* create_client: connect() returned, the handle is stored on the session
ConnectOk ==
    /\ turns["connecting"] > 0
    /\ client' = TRUE
    /\ inflight' = IF client THEN inflight ELSE 0
    /\ turns' = Move("connecting", "fetch")
    /\ UNCHANGED <<claude_session_id, is_processing, pending_question, pending_permission,
                   waiting_for_rejection_reason, waiting_for_answer, permission_mode,
                   question, rules, hpc, hargs, perm, hret, upd, always_log, reason_log,
                   snapshot, inputs, extVars>>

\* create_client: connect() raised; nothing catches it in _handle_message, the
\* handler ends there and session.client is left as it was
ConnectFails ==
    /\ turns["connecting"] > 0
    /\ turns' = Leave("connecting")
    /\ UNCHANGED <<sessionVars, pending_permission, question, rules, hpc, hargs, perm, hret,
                   upd, inflight, always_log, reason_log, snapshot, inputs, extVars>>

\* fetch_context is over (its failures are swallowed); `if session.client:`
\* sets is_processing and enters _query_and_process
FetchContext ==
    /\ turns["fetch"] > 0
    /\ IF client
       THEN /\ is_processing' = TRUE
            /\ turns' = Move("fetch", "query")
       ELSE /\ turns' = Leave("fetch")
            /\ UNCHANGED is_processing
    /\ UNCHANGED <<client, claude_session_id, pending_question, pending_permission,
                   waiting_for_rejection_reason, waiting_for_answer, permission_mode,
                   question, rules, hpc, hargs, perm, hret, upd, inflight, always_log,
                   reason_log, snapshot, inputs, extVars>>

\* client.query returned; process_response starts and sets is_processing
QuerySent ==
    /\ turns["query"] > 0
    /\ client
    /\ inflight < MaxInflight
    /\ inflight' = inflight + 1
    /\ is_processing' = TRUE
    /\ turns' = Move("query", "recv")
    /\ UNCHANGED <<client, claude_session_id, pending_question, pending_permission,
                   waiting_for_rejection_reason, waiting_for_answer, permission_mode,
                   question, rules, hpc, hargs, perm, hret, upd, always_log, reason_log,
                   snapshot, inputs, extVars>>

\* an AskUserQuestion tool use is read: the PendingQuestion is stored and the
\* QuestionEvent yielded
RecvQuestion(n) ==
    /\ turns["recv"] > 0
    /\ client
    /\ inflight > 0
    /\ \A i \in Slots : upd[i].pc # "q_edit"
    /\ pending_question' = 1
    /\ question' = [n |-> n, current_question_idx |-> 0, answers |-> [k \in 1..n |-> ""]]
    /\ turns' = Move("recv", "asked")
    /\ UNCHANGED <<client, claude_session_id, is_processing, pending_permission,
                   waiting_for_rejection_reason, waiting_for_answer, permission_mode,
                   rules, hpc, hargs, perm, hret, upd, inflight, always_log, reason_log,
                   snapshot, inputs, extVars>>

\* the consumer showed the question; the generator resumes and returns
QuestionShown ==
    /\ turns["asked"] > 0
    /\ is_processing' = FALSE
    /\ turns' = Leave("asked")
    /\ keyboards' = keyboards \cup {"q"}
    /\ UNCHANGED <<client, claude_session_id, pending_question, pending_permission,
                   waiting_for_rejection_reason, waiting_for_answer, permission_mode,
                   question, rules, hpc, hargs, perm, hret, upd, inflight, always_log,
                   reason_log, snapshot, inputs, teleVars, sseVars,
                   srvVars>>

\* request_question_answer raised: the consumer is gone, the generator is
\* left suspended at its yield
QuestionSendFails ==
    /\ turns["asked"] > 0
    /\ turns' = Move("asked", "abandoned")
    /\ UNCHANGED <<sessionVars, pending_permission, question, rules, hpc, hargs, perm, hret,
                   upd, inflight, always_log, reason_log, snapshot, inputs, extVars>>

\* the ResultMessage that ends the agent's turn is read: session id captured,
\* last text yielded, finally
RecvResult ==
    /\ turns["recv"] > 0
    /\ client
    /\ inflight > 0
    /\ \A h \in AllHandlers : hpc[h] = "idle"  \* the agent is not suspended on a tool call
    /\ claude_session_id' = IF claude_session_id = "" THEN "s0"   \* message.session_id
                                  ELSE claude_session_id        \* kept if already known
    /\ inflight' = inflight - 1
    /\ is_processing' = FALSE
    /\ turns' = Leave("recv")
    /\ UNCHANGED <<client, pending_question, pending_permission,
                   waiting_for_rejection_reason, waiting_for_answer, permission_mode,
                   question, rules, hpc, hargs, perm, hret, upd, always_log, reason_log,
                   snapshot, inputs, extVars>>

\* the stream raised: the ErrorEvent is yielded and sent to the chat as a
\* final text, finally
RecvError ==
    /\ turns["recv"] > 0
    /\ client
    /\ inflight > 0
    /\ inflight' = 0
    /\ produced' = Append(produced, "error")
    /\ is_processing' = FALSE
    /\ turns' = Leave("recv")
    /\ UNCHANGED <<client, claude_session_id, pending_question, pending_permission,
                   waiting_for_rejection_reason, waiting_for_answer, permission_mode,
                   question, rules, hpc, hargs, perm, hret, upd, always_log, reason_log,
                   snapshot, inputs, keyboards, teleVars, event_queue, sse,
                   _sse_connection_count, srvVars>>

\* the `finally` of a process_response whose stream was closed by a disconnect
\* ("closed") or whose generator was finalized after its consumer died
GeneratorFinally(pc) ==
    /\ pc \in {"closed", "abandoned"}
    /\ turns[pc] > 0
    /\ is_processing' = FALSE
    /\ turns' = Leave(pc)
    /\ UNCHANGED <<client, claude_session_id, pending_question, pending_permission,
                   waiting_for_rejection_reason, waiting_for_answer, permission_mode,
                   question, rules, hpc, hargs, perm, hret, upd, inflight, always_log,
                   reason_log, snapshot, inputs, extVars>>

\* -------------------------------------------------------- teleport helpers
\* the conversations whose log under ~/.claude/projects has user or assistant
\* lines: s1, started in /a
logs == {<<"s1", "/a">>}
\* a check that takes every conversation for resumable
always_resumable(session_id, dir) == TRUE

can_resume_session(session_id, dir) == <<session_id, dir>> \in logs


\* a store that keeps the teleport already pending
keep_first_teleport(pending, teleport) == IF pending # NoTeleport THEN pending ELSE teleport

\* self._pending_teleports[user_id] = teleport
store_teleport(pending, teleport) == teleport

\* a /new that leaves the teleport where it is
keep_teleport(pending) == pending

\* self._pending_teleports.pop(user_id, None)
pop_teleport(pending) == NoTeleport

\* ------------------------------------------------- commands and hot reload
\* client.disconnect(): the SDK closes the transport and cancels its task
\* group, so running permission handlers are cancelled, streams being read
\* end, and a query being written is lost
DropRuntime(drained) ==
    /\ inflight' = 0
    /\ hpc' = [h \in AllHandlers |-> "idle"]
    /\ hret' = [h \in AllHandlers |-> NoResult]
    /\ turns' = [turns EXCEPT !["recv"] = 0, !["query"] = 0,
                              !["closed"] = IF drained THEN @ ELSE @ + turns["recv"]]

\* Session.disconnect as awaited by /new and /cancel
disconnect ==
    IF client THEN DropRuntime(FALSE) ELSE UNCHANGED <<inflight, hpc, hret, turns>>

_handle_new ==
    /\ disconnect
    /\ client' = FALSE
    /\ claude_session_id' = ""
    /\ is_processing' = FALSE
    /\ pending_question' = 0
    /\ pending_permission' = 0
    /\ pending_teleport' = pop_teleport(pending_teleport)
    /\ UNCHANGED <<waiting_for_rejection_reason, waiting_for_answer, permission_mode,
                   question, rules, hargs, perm, upd, always_log, reason_log, snapshot,
                   keyboards, terminal_id, cwd, resume, request, accepted, sseVars,
                   srvVars>>
    /\ Received

\* /cancel: a pending teleport is dropped and nothing else is done;
\* without one the session is disconnected
_handle_cancel ==
    /\ IF pending_teleport # NoTeleport
       THEN /\ pending_teleport' = NoTeleport
            /\ UNCHANGED <<client, claude_session_id, is_processing, inflight, hpc, hret,
                           turns>>
       ELSE /\ disconnect
            /\ client' = FALSE
            /\ claude_session_id' = ""
            /\ is_processing' = FALSE
            /\ UNCHANGED pending_teleport
    /\ UNCHANGED <<pending_question, pending_permission, waiting_for_rejection_reason,
                   waiting_for_answer, permission_mode, question, rules, hargs, perm, upd,
                   always_log, reason_log, snapshot, keyboards, terminal_id, cwd, resume,
                   request, accepted, sseVars,
                   srvVars>>
    /\ Received

\* what save_state leaves in SESSION_STATE_FILE for a session
save_state(csid, processing, mode) ==
    IF csid # ""
    THEN [claude_session_id |-> csid, terminal_id |-> terminal_id, cwd |-> cwd,
          is_processing |-> processing, permission_mode |-> mode]
    ELSE NoSnapshot

\* POST /api/prepare-reload: disconnect, drop the handle, save the state.
\* Whether the stream consumers reach their `finally` while the disconnect
\* is awaited is up to the scheduler: `drained` is either outcome.
handle_prepare_reload(drained) ==
    /\ IF client
       THEN /\ DropRuntime(drained)
            /\ is_processing' = IF drained /\ turns["recv"] > 0 THEN FALSE
                                ELSE is_processing
       ELSE UNCHANGED <<inflight, hpc, hret, turns, is_processing>>
    /\ client' = FALSE
    /\ reload_pending' = FALSE
    /\ force_reload' = FALSE
    /\ snapshot' = save_state(claude_session_id, is_processing', permission_mode)
    /\ UNCHANGED <<claude_session_id, pending_question, pending_permission,
                   waiting_for_rejection_reason, waiting_for_answer, permission_mode,
                   question, rules, hargs, perm, upd, always_log, reason_log, keyboards,
                   teleVars, sseVars, downVars, fileVars, respVars>>
    /\ Received

\* POST /api/prepare-reload whose await of frontend.notify_reloading() raises:
\* the flags are already cleared, the handler ends there with the exception
PrepareReloadAborted ==
    /\ reload_pending' = FALSE
    /\ force_reload' = FALSE
    /\ Received
    /\ UNCHANGED <<sessionVars, pending_permission, question, rules, hpc, hargs, perm, hret,
                   upd, turns, inflight, always_log, reason_log, snapshot, keyboards,
                   teleVars, sseVars, downVars, fileVars, respVars>>

\* GET /api/can-reload: the JSON it answers with
handle_can_reload ==
    [can_reload |-> ~is_processing,
     force_reload |-> force_reload,
     reload_pending |-> reload_pending,
     processing |-> IF is_processing THEN 1 ELSE 0]

\* POST /api/request-reload: the pending flag is set and the user notified
handle_request_reload ==
    /\ reload_pending' = TRUE
    /\ Received
    /\ UNCHANGED <<sessionVars, pending_permission, question, rules, hpc, hargs, perm, hret,
                   upd, turns, inflight, always_log, reason_log, snapshot, keyboards,
                   teleVars, sseVars, force_reload, downVars, fileVars, respVars>>

\* POST /api/force-reload
handle_force_reload ==
    /\ force_reload' = TRUE
    /\ Received
    /\ UNCHANGED <<sessionVars, pending_permission, question, rules, hpc, hargs, perm, hret,
                   upd, turns, inflight, always_log, reason_log, snapshot, keyboards,
                   teleVars, sseVars, reload_pending, downVars, fileVars, respVars>>

\* wait_for_idle of the reload coordinator: whether a poll ends the wait
wait_for_idle(status) == status.can_reload \/ status.force_reload

\* the server process is started again: run_server calls load_state. Every
\* coroutine of the old process is gone; updates not yet fetched are kept
\* by the chat service.
load_state ==
    /\ client' = FALSE
    /\ claude_session_id' = snapshot.claude_session_id
    /\ is_processing' = snapshot.is_processing
    /\ permission_mode' = snapshot.permission_mode
    /\ pending_question' = 0
    /\ pending_permission' = 0
    /\ waiting_for_rejection_reason' = FALSE
    /\ waiting_for_answer' = FALSE
    /\ question' = NoQuestion
    /\ hpc' = [h \in AllHandlers |-> "idle"]
    /\ hargs' = [h \in AllHandlers |-> NoCall]
    /\ perm' = [h \in AllHandlers |-> NoPending]
    /\ hret' = [h \in AllHandlers |-> NoResult]
    /\ reason_log' = [h \in AllHandlers |-> NoResult]
    /\ turns' = NoTurns
    /\ inflight' = 0
    /\ upd' = [i \in Slots |-> IF upd[i].pc = "arrived" THEN upd[i] ELSE NoUpdate]
    /\ pending_teleport' = NoTeleport
    /\ terminal_id' = snapshot.terminal_id
    /\ cwd' = snapshot.cwd
    /\ resume' = ""
    /\ request' = NoRequest
    /\ event_queue' = <<>>
    /\ sse' = [c \in Consumers |-> NoStream]
    /\ _sse_connection_count' = 0
    /\ reload_pending' = FALSE
    /\ force_reload' = FALSE
    /\ shutdown_event' = FALSE
    /\ Received
    /\ UNCHANGED <<rules, always_log, snapshot, keyboards, accepted, produced,
                   wrapper_pid, fileVars, respVars>>

\* ------------------------------------------------------ teleport requests
\* a POST /teleport reaches the server; handle_teleport awaits its body
PostTeleport(body) ==
    /\ request = NoRequest
    /\ request' = body
    /\ Received
    /\ UNCHANGED <<sessionVars, pending_permission, question, rules, hpc, hargs, perm, hret,
                   upd, turns, inflight, always_log, reason_log, snapshot, keyboards,
                   pending_teleport, terminal_id, cwd, resume, accepted, sseVars,
                   srvVars>>

\* handle_teleport once the body is read: 400 without session_id or
\* terminal_id, else the teleport is stored and the session bound to the
\* terminal
handle_teleport ==
    /\ request # NoRequest
    /\ request' = NoRequest
    /\ IF request.session_id = "" \/ request.terminal_id = ""
       THEN UNCHANGED <<pending_teleport, terminal_id, accepted>>
       ELSE LET teleport == [session_id |-> request.session_id,
                             cwd |-> IF request.cwd = "" THEN "." ELSE request.cwd,
                             terminal_id |-> request.terminal_id,
                             permission_mode |-> IF request.permission_mode = ""
                                                 THEN "default"
                                                 ELSE request.permission_mode]
            IN  /\ pending_teleport' = store_teleport(pending_teleport, teleport)
                /\ terminal_id' = request.terminal_id
                /\ accepted' = Append(accepted, teleport)
    /\ UNCHANGED <<sessionVars, pending_permission, question, rules, hpc, hargs, perm, hret,
                   upd, turns, inflight, always_log, reason_log, snapshot, inputs, keyboards,
                   cwd, resume, sseVars,
                   srvVars>>

\* _handle_message with a teleport pending: it is popped and the session set
\* up from it, up to the await of connect() inside create_client
_setup_session_from_teleport(i) ==
    /\ upd[i].kind = "message"
    /\ upd[i].pc = "arrived"
    /\ _check_auth(upd[i].user)
    /\ pending_teleport # NoTeleport
    /\ concurrent_updates(i)
    /\ LET teleport == pending_teleport
           resumable == can_resume_session(teleport.session_id, teleport.cwd)
       IN  /\ pending_teleport' = NoTeleport
           /\ cwd' = teleport.cwd
           /\ terminal_id' = teleport.terminal_id
           /\ permission_mode' = validate_permission_mode(teleport.permission_mode)
           /\ claude_session_id' = IF resumable THEN teleport.session_id ELSE ""
           /\ resume' = create_client'
    /\ upd' = [upd EXCEPT ![i].pc = "tp_connect"]
    /\ UNCHANGED <<client, is_processing, pending_question, pending_permission,
                   waiting_for_rejection_reason, waiting_for_answer, question, rules, hpc,
                   hargs, perm, hret, turns, inflight, always_log, reason_log, snapshot,
                   inputs, keyboards, request, accepted, sseVars,
                   srvVars>>

\* connect() returned: the handle is stored, fetch_context and the replies
\* follow, and _handle_message goes on with the text
TeleportConnected(i) ==
    /\ upd[i].pc = "tp_connect"
    /\ client' = TRUE
    /\ inflight' = IF client THEN inflight ELSE 0
    /\ upd' = [upd EXCEPT ![i].pc = "teleported"]
    /\ UNCHANGED <<claude_session_id, is_processing, pending_question, pending_permission,
                   waiting_for_rejection_reason, waiting_for_answer, permission_mode,
                   question, rules, hpc, hargs, perm, hret, turns, always_log, reason_log,
                   snapshot, inputs, extVars>>

\* connect() raised: 'Failed to connect' is replied, _handle_message goes on
TeleportFailed(i) ==
    /\ upd[i].pc = "tp_connect"
    /\ upd' = [upd EXCEPT ![i].pc = "teleported"]
    /\ UNCHANGED <<sessionVars, pending_permission, question, rules, hpc, hargs, perm, hret,
                   turns, inflight, always_log, reason_log, snapshot, inputs, extVars>>

\* --------------------------------------------------------- terminal stream
\* a loop that goes on after every event
ClosesNothing(event) == FALSE

\* isinstance(event, (ReturnToTerminalEvent, SupersededEvent)): break
ClosesConsumer(event) == event \in {"return_to_terminal", "superseded"}

\* _trigger_shutdown: a standalone server goes on, one started by a wrapper
\* sets the shutdown event
_trigger_shutdown ==
    shutdown_event' = IF wrapper_pid THEN TRUE ELSE shutdown_event

\* the `finally` of handle_stream
StreamFinallyOf(streams, c, frames) ==
    /\ sse' = [streams EXCEPT ![c].pc = "closed", ![c].written = frames, ![c].stale = 0]
    /\ _sse_connection_count' = _sse_connection_count - 1
    /\ IF _sse_connection_count' = 0 /\ ~client
       THEN _trigger_shutdown
       ELSE UNCHANGED shutdown_event

StreamFinally(c, frames) == StreamFinallyOf(sse, c, frames)

\* event_queue.get() took the oldest event: of the events that were in the
\* queue when a consumer connected, one fewer is left
Aged ==
    [j \in Consumers |-> [sse[j] EXCEPT !.stale = IF @ > 0 THEN @ - 1 ELSE 0]]

\* GET /stream?terminal_id=t: 400 without terminal_id, else the response is
\* prepared, the connection counted and the write of 'connected' awaited
handle_stream(c, t) ==
    /\ sse[c].pc = "closed"
    /\ \A j \in Consumers : j < c => sse[j].pc # "closed"
    /\ IF t = ""
       THEN UNCHANGED <<sse, _sse_connection_count>>
       ELSE /\ sse' = [sse EXCEPT ![c] = [pc |-> "connected", terminal_id |-> t,
                                          written |-> <<"connected">>,
                                          since |-> Len(produced),
                                          stale |-> Len(event_queue)]]
            /\ _sse_connection_count' = _sse_connection_count + 1
    /\ Received
    /\ UNCHANGED <<sessionVars, pending_permission, question, rules, hpc, hargs, perm, hret,
                   upd, turns, inflight, always_log, reason_log, snapshot, keyboards,
                   teleVars, event_queue, produced,
                   srvVars>>

\* the awaited write returned, the loop starts over: a consumer whose terminal
\* is not the session's writes 'superseded' and leaves, any other one awaits
\* event_queue.get() for 30 s
StreamLoop(c) ==
    /\ sse[c].pc \in {"connected", "write"}
    /\ IF terminal_id # "" /\ terminal_id # sse[c].terminal_id
       THEN StreamFinally(c, Append(sse[c].written, "superseded"))
       ELSE /\ sse' = [sse EXCEPT ![c].pc = "get"]
            /\ UNCHANGED <<_sse_connection_count, shutdown_event>>
    /\ UNCHANGED <<sessionVars, pending_permission, question, rules, hpc, hargs, perm, hret,
                   upd, turns, inflight, always_log, reason_log, snapshot, inputs, keyboards,
                   teleVars, event_queue, produced,
                   flagVars, wrapper_pid, fileVars, respVars>>

\* event_queue.get() returned an event: it is written as an update
StreamGet(c) ==
    /\ sse[c].pc = "get"
    /\ event_queue # <<>>
    /\ event_queue' = Tail(event_queue)
    /\ LET event == Head(event_queue)
       IN  IF ClosesConsumer(event)
           THEN StreamFinallyOf(Aged, c, Append(sse[c].written, event))
           ELSE /\ sse' = [Aged EXCEPT ![c].pc = "write",
                                       ![c].written = Append(@, event)]
                /\ UNCHANGED <<_sse_connection_count, shutdown_event>>
    /\ UNCHANGED <<sessionVars, pending_permission, question, rules, hpc, hargs, perm, hret,
                   upd, turns, inflight, always_log, reason_log, snapshot, inputs, keyboards,
                   teleVars, produced,
                   flagVars, wrapper_pid, fileVars, respVars>>

\* asyncio.TimeoutError after 30 s without an event: a keepalive is written
StreamKeepalive(c) ==
    /\ sse[c].pc = "get"
    /\ event_queue = <<>>
    /\ Len(sse[c].written) < MaxWritten
    /\ sse' = [sse EXCEPT ![c].pc = "write", ![c].written = Append(@, "keepalive")]
    /\ UNCHANGED <<sessionVars, pending_permission, question, rules, hpc, hargs, perm, hret,
                   upd, turns, inflight, always_log, reason_log, snapshot, inputs, keyboards,
                   teleVars, event_queue, _sse_connection_count, produced,
                   srvVars>>

\* the terminal went away: CancelledError or ConnectionResetError, finally
StreamReset(c) ==
    /\ sse[c].pc \in {"write", "get"}
    /\ StreamFinally(c, sse[c].written)
    /\ UNCHANGED <<sessionVars, pending_permission, question, rules, hpc, hargs, perm, hret,
                   upd, turns, inflight, always_log, reason_log, snapshot, inputs, keyboards,
                   teleVars, event_queue, produced,
                   flagVars, wrapper_pid, fileVars, respVars>>

\* the terminal went away while 'connected' was being written: that write is
\* before the try, the exception leaves handle_stream past its finally
ConnectedWriteFails(c) ==
    /\ sse[c].pc = "connected"
    /\ sse' = [sse EXCEPT ![c].pc = "closed", ![c].stale = 0]
    /\ UNCHANGED <<sessionVars, pending_permission, question, rules, hpc, hargs, perm, hret,
                   upd, turns, inflight, always_log, reason_log, snapshot, inputs, keyboards,
                   teleVars, event_queue, _sse_connection_count, produced,
                   srvVars>>

\* Session.emit: event_queue.put on a queue without maxsize
emit(queue, event) == Append(queue, event)

\* /cc: with a session id known the resume command is replied and a
\* ReturnToTerminalEvent emitted
_handle_cc ==
    /\ IF claude_session_id # ""
       THEN event_queue' = emit(event_queue, "return_to_terminal")
       ELSE UNCHANGED event_queue
    /\ Received
    /\ UNCHANGED <<sessionVars, pending_permission, question, rules, hpc, hargs, perm, hret,
                   upd, turns, inflight, always_log, reason_log, snapshot, keyboards,
                   teleVars, sse, _sse_connection_count, produced,
                   srvVars>>

\* what the agent streams in a turn: a text, a tool call and its result
StreamEvents == <<"text", "tool_call", "tool_result">>

\* process_response yields the next event and _handle_event_internal sends it
\* to the chat
RecvEvent ==
    /\ turns["recv"] > 0
    /\ client
    /\ inflight > 0
    /\ Len(produced) < Len(StreamEvents)
    /\ produced' = Append(produced, StreamEvents[Len(produced) + 1])
    /\ UNCHANGED <<sessionVars, pending_permission, question, rules, hpc, hargs, perm, hret,
                   upd, turns, inflight, always_log, reason_log, snapshot, inputs, keyboards,
                   teleVars, event_queue, sse, _sse_connection_count,
                   srvVars>>

\* a server just started: no keyboard sent, no teleport, no terminal listening
InitServer ==
    /\ keyboards = {}
    /\ pending_teleport = NoTeleport
    /\ terminal_id = ""
    /\ cwd = "/"
    /\ resume = ""
    /\ request = NoRequest
    /\ accepted = <<>>
    /\ event_queue = <<>>
    /\ sse = [c \in Consumers |-> NoStream]
    /\ _sse_connection_count = 0
    /\ produced = <<>>
    /\ reload_pending = FALSE
    /\ force_reload = FALSE
    /\ shutdown_event = FALSE
    /\ wrapper_pid = FALSE

\* and no state file, no session registered
InitExt ==
    /\ InitServer
    /\ state_file = NoFile
    /\ _sessions = <<>>
    /\ received = <<>>
    /\ yielded = <<>>

\* ------------------------------------------------------------ specification
\* the one session of the allowed user, as Session() builds it
InitSession ==
    /\ client = FALSE
    /\ claude_session_id = ""
    /\ is_processing = FALSE
    /\ pending_question = 0
    /\ pending_permission = 0
    /\ waiting_for_rejection_reason = FALSE
    /\ waiting_for_answer = FALSE
    /\ permission_mode = "default"
    /\ question = NoQuestion
    /\ rules = {}
    /\ hpc = [h \in AllHandlers |-> "idle"]
    /\ hargs = [h \in AllHandlers |-> NoCall]
    /\ perm = [h \in AllHandlers |-> NoPending]
    /\ hret = [h \in AllHandlers |-> NoResult]
    /\ upd = [i \in Slots |-> NoUpdate]
    /\ turns = NoTurns
    /\ inflight = 0
    /\ always_log = {}
    /\ reason_log = [h \in AllHandlers |-> NoResult]
    /\ snapshot = NoSnapshot
    /\ inputs = 0

Init ==
    /\ InitSession
    /\ InitExt

\* what the user and the agent send in the session machine
Presses == {<<"perm", "allow">>, <<"perm", "always">>, <<"perm", "accept_edits">>,
            <<"perm", "reject">>, <<"q", "0", "0">>, <<"q", "0", "1">>, <<"q", "0", "other">>}
BashCall(command) == [tool_name |-> "Bash", input_data |-> [key |-> "command", value |-> command]]
FileCall(tool_name) == [tool_name |-> tool_name, input_data |-> [key |-> "file_path", value |-> <<"a">>]]
Calls == {BashCall(<<"a">>), FileCall("Edit"), FileCall("Read")}
Outputs == {<<"a">>, <<"*">>, QueryError}

Next ==
    \/ \E h \in Handlers, c \in Calls : CanUseTool(h, c.tool_name, c.input_data)
    \/ \E h \in Handlers : SendDelivered(h)
    \/ \E h \in Handlers : SendFailed(h)
    \/ \E h \in Handlers : HandlerWakes(h)
    \/ \E h \in Handlers : AgentTakes(h)
    \/ \E i \in Slots, text \in Texts : UserText(i, text)
    \/ \E i \in Slots, data \in Presses : UserPress(i, data)
    \/ \E i \in Slots : HandleCallback(i)
    \/ \E i \in Slots, output \in Outputs : SmartAttempt(i, output)
    \/ \E i \in Slots : CallbackSetsEvent(i)
    \/ \E i \in Slots : QuestionCallbackContinues(i)
    \/ \E i \in Slots : HandleMessage(i)
    \/ ConnectOk
    \/ FetchContext
    \/ QuerySent
    \/ \E n \in 1..MaxQuestions : RecvQuestion(n)
    \/ QuestionShown
    \/ QuestionSendFails
    \/ RecvResult
    \/ RecvError
    \/ \E pc \in {"closed", "abandoned"} : GeneratorFinally(pc)
    \/ _handle_new
    \/ _handle_cancel
    \/ \E drained \in BOOLEAN : handle_prepare_reload(drained)
    \/ load_state

Spec == Init /\ [][Next]_vars

\* ------------------------------------------- the permission coordinator
\* The coordinator alone, on every mode, allow-list and tool call: a session
\* whose turn is being streamed, the agent asking for tools, the user
\* answering with 'allow' or 'always'. The agent tries any call until the
\* user answers, and from then on repeats the calls answered 'always'.
NotebookCall == [tool_name |-> "NotebookEdit",
                 input_data |-> [key |-> "notebook_path", value |-> <<"a">>]]
CoordCalls ==
    {BashCall(command) : command \in StrsUpTo(MaxCmdLen)}
        \cup {FileCall("Edit"), FileCall("Write"), FileCall("MultiEdit"), FileCall("Read"),
              NotebookCall}
CandidateRules ==
    {Rule("Bash", <<"a", ":", "*">>), Rule("Bash", <<"a", " ", "*">>),
     Rule("Bash", <<":", "*">>), Rule("Bash", <<"*">>),
     Rule("Edit", <<"/", "/", "a">>), Rule("Write", <<"/", "/", "a">>),
     Rule("NotebookEdit", <<"/", "/", "a">>), Rule("MultiEdit", <<"*">>)}
CoordPresses == {<<"perm", "allow">>, <<"perm", "always">>}

InitCoord ==
    /\ client = TRUE
    /\ claude_session_id = ""
    /\ is_processing = TRUE
    /\ pending_question = 0
    /\ pending_permission = 0
    /\ waiting_for_rejection_reason = FALSE
    /\ waiting_for_answer = FALSE
    /\ permission_mode \in VALID_MODES
    /\ question = NoQuestion
    /\ rules \in {allow \in SUBSET CandidateRules : Cardinality(allow) <= MaxRules}
    /\ hpc = [h \in AllHandlers |-> "idle"]
    /\ hargs = [h \in AllHandlers |-> NoCall]
    /\ perm = [h \in AllHandlers |-> NoPending]
    /\ hret = [h \in AllHandlers |-> NoResult]
    /\ upd = [i \in Slots |-> NoUpdate]
    /\ turns = [NoTurns EXCEPT !["recv"] = 1]
    /\ inflight = 1
    /\ always_log = {}
    /\ reason_log = [h \in AllHandlers |-> NoResult]
    /\ snapshot = NoSnapshot
    /\ inputs = 0
    /\ InitExt

NextCoord ==
    \/ \E h \in Handlers, c \in CoordCalls :
          /\ inputs = 0 \/ c \in always_log
          /\ CanUseTool(h, c.tool_name, c.input_data)
    \/ \E h \in Handlers : SendDelivered(h)
    \/ \E h \in Handlers : SendFailed(h)
    \/ \E h \in Handlers : HandlerWakes(h)
    \/ \E h \in Handlers : AgentTakes(h)
    \/ \E i \in Slots, data \in CoordPresses : UserPress(i, data)
    \/ \E i \in Slots : HandleCallback(i)
    \/ \E i \in Slots, output \in ModelOutputs : SmartAttempt(i, output)
    \/ \E i \in Slots : CallbackSetsEvent(i)

SpecCoord == InitCoord /\ [][NextCoord]_vars

\* ----------------------------------------------------- the teleport handoff
\* A fresh server: terminals post teleports, the user sends texts, /new and
\* /cancel; the agent answers with a question, a tool call or its result.
\* the teleport of terminal T1
TeleportT1 ==
    [session_id |-> "s1", cwd |-> "/a", terminal_id |-> "T1", permission_mode |-> "acceptEdits"]

TeleportBodies ==
    {[session_id |-> "s1", cwd |-> "/a", terminal_id |-> "T1", permission_mode |-> "acceptEdits"],
     [session_id |-> "s2", cwd |-> "/b", terminal_id |-> "T2", permission_mode |-> "bogus"],
     [session_id |-> "s1", cwd |-> "/a", terminal_id |-> "", permission_mode |-> ""]}

NextTeleport ==
    \/ \E body \in TeleportBodies : PostTeleport(body)
    \/ handle_teleport
    \/ \E i \in Slots : UserText(i, "t1")
    \/ \E i \in Slots : _setup_session_from_teleport(i)
    \/ \E i \in Slots : TeleportConnected(i)
    \/ \E i \in Slots : TeleportFailed(i)
    \/ \E i \in Slots : HandleMessage(i)
    \/ ConnectOk
    \/ ConnectFails
    \/ FetchContext
    \/ QuerySent
    \/ \E h \in Handlers : CanUseTool(h, "Bash", [key |-> "command", value |-> <<"a">>])
    \/ \E h \in Handlers : SendDelivered(h)
    \/ RecvQuestion(1)
    \/ QuestionShown
    \/ RecvResult
    \/ _handle_new
    \/ _handle_cancel

SpecTeleport == Init /\ [][NextTeleport]_vars

\* ----------------------------------------------------- the terminal stream
\* A session teleported from terminal T1 whose first turn is being streamed:
\* terminals open and drop /stream connections, post further teleports, the
\* user sends /cc, the agent streams the events of the turn.
StreamingSession ==
    /\ client = TRUE
    /\ claude_session_id = "s1"
    /\ is_processing = TRUE
    /\ pending_question = 0
    /\ pending_permission = 0
    /\ waiting_for_rejection_reason = FALSE
    /\ waiting_for_answer = FALSE
    /\ permission_mode = "acceptEdits"
    /\ question = NoQuestion
    /\ rules = {}
    /\ hpc = [h \in AllHandlers |-> "idle"]
    /\ hargs = [h \in AllHandlers |-> NoCall]
    /\ perm = [h \in AllHandlers |-> NoPending]
    /\ hret = [h \in AllHandlers |-> NoResult]
    /\ upd = [i \in Slots |-> NoUpdate]
    /\ turns = [NoTurns EXCEPT !["recv"] = 1]
    /\ inflight = 1
    /\ always_log = {}
    /\ reason_log = [h \in AllHandlers |-> NoResult]
    /\ snapshot = NoSnapshot
    /\ inputs = 0
    /\ keyboards = {}
    /\ pending_teleport = NoTeleport
    /\ terminal_id = "T1"
    /\ cwd = "/a"
    /\ resume = "s1"
    /\ request = NoRequest
    /\ accepted = <<[session_id |-> "s1", cwd |-> "/a", terminal_id |-> "T1",
                     permission_mode |-> "acceptEdits"]>>
    /\ event_queue = <<>>
    /\ sse = [c \in Consumers |-> NoStream]
    /\ _sse_connection_count = 0
    /\ produced = <<>>
    /\ reload_pending = FALSE
    /\ force_reload = FALSE
    /\ shutdown_event = FALSE
    /\ state_file = NoFile
    /\ _sessions = <<>>
    /\ received = <<>>
    /\ yielded = <<>>

\* a standalone server: RCLAUDE_WRAPPER_PID is not set
InitStream == StreamingSession /\ wrapper_pid = FALSE

NextStream ==
    \/ \E c \in Consumers, t \in Terminals \cup {""} : handle_stream(c, t)
    \/ \E c \in Consumers : StreamLoop(c)
    \/ \E c \in Consumers : StreamGet(c)
    \/ \E c \in Consumers : StreamKeepalive(c)
    \/ \E c \in Consumers : StreamReset(c)
    \/ \E c \in Consumers : ConnectedWriteFails(c)
    \/ \E body \in TeleportBodies : PostTeleport(body)
    \/ handle_teleport
    \/ _handle_cc
    \/ RecvEvent

SpecStream == InitStream /\ [][NextStream]_vars

\* ------------------------------------------------------------ self-shutdown
\* The same session in a server that a wrapper may have started: terminals
\* open and drop /stream connections, the user sends /cc and /new.
InitShutdown == StreamingSession /\ wrapper_pid \in BOOLEAN

NextShutdown ==
    \/ \E c \in Consumers, t \in Terminals \cup {""} : handle_stream(c, t)
    \/ \E c \in Consumers : StreamLoop(c)
    \/ \E c \in Consumers : StreamGet(c)
    \/ \E c \in Consumers : StreamKeepalive(c)
    \/ \E c \in Consumers : StreamReset(c)
    \/ \E c \in Consumers : ConnectedWriteFails(c)
    \/ _handle_cc
    \/ _handle_new
    \/ RecvEvent

SpecShutdown == InitShutdown /\ [][NextShutdown]_vars

\* The event loop runs every coroutine that is ready: a stream handler whose
\* write has returned goes round its loop, one whose event_queue.get() has an
\* event or has timed out goes on. Requests and chat commands come when the
\* terminal and the user send them.
FairnessShutdown ==
    /\ WF_vars(\E c \in Consumers : StreamLoop(c))
    /\ WF_vars(\E c \in Consumers : StreamGet(c))

LiveSpecShutdown == SpecShutdown /\ FairnessShutdown

\* ------------------------------------------- commands sent on to the agent
\* what a command handler leaves alone when it does nothing but query
ProxyUnchanged ==
    UNCHANGED <<sessionVars, pending_permission, question, rules, hpc, hargs, perm, hret, upd,
                inflight, always_log, reason_log, snapshot, extVars>>

\* /context: _query_and_process(session, '/context'), which returns at once
\* without a handle
_handle_context ==
    /\ _query_and_process
    /\ Received
    /\ ProxyUnchanged

\* /compact: with a handle, 'Compacting conversation...' and the query
_handle_compact ==
    /\ IF client THEN _query_and_process ELSE UNCHANGED turns
    /\ Received
    /\ ProxyUnchanged

\* /todos: with a handle, the query
_handle_todos ==
    /\ IF client THEN _query_and_process ELSE UNCHANGED turns
    /\ Received
    /\ ProxyUnchanged

\* A fresh server whose user sends texts and the three commands while the
\* agent answers.
NextSerial ==
    \/ \E i \in Slots, text \in Texts : UserText(i, text)
    \/ \E i \in Slots : HandleMessage(i)
    \/ ConnectOk
    \/ FetchContext
    \/ QuerySent
    \/ RecvResult
    \/ RecvError
    \/ _handle_context
    \/ _handle_compact
    \/ _handle_todos

SpecSerial == Init /\ [][NextSerial]_vars

\* ------------------------------------------------------ process_response
\* What one process_response yields, on every stream of messages of up to
\* MaxMessages blocks. A message is one block of an AssistantMessage (text,
\* tool use, AskUserQuestion), a tool result, a SystemMessage with a text, a
\* ResultMessage (with or without an error text), or the stream raising.
Message(type, text) == [type |-> type, text |-> text]
Messages ==
    {Message("text", <<"a">>), Message("text", <<" ">>), Message("tool_use", <<>>),
     Message("ask", <<>>), Message("tool_result", <<>>), Message("system", <<"a">>),
     Message("result", <<>>), Message("result_error", <<"a">>), Message("raise", <<>>)}

RECURSIVE StreamsOfLen(_)
StreamsOfLen(n) ==
    IF n = 0 THEN {<<>>} ELSE {Append(s, m) : s \in StreamsOfLen(n - 1), m \in Messages}
Streams == UNION {StreamsOfLen(n) : n \in 1..MaxMessages}

Event(type, is_final) == [type |-> type, is_final |-> is_final]

\* a text event that carries the flag as it stands
pre_tool_text_flagged(is_final) == Event("text", is_final)

\* TextEvent(..., is_final=False), yielded before a tool call
pre_tool_text(is_final) == Event("text", FALSE)

\* `if response_text.strip(): yield TextEvent(is_final=False); response_text = ''`
FlushedEvents(events, response_text, is_final) ==
    IF strip(response_text) # <<>> THEN Append(events, pre_tool_text(is_final)) ELSE events
FlushedText(response_text) == IF strip(response_text) # <<>> THEN <<>> ELSE response_text

\* the loop over receive_response(), the yield after it, the except
RECURSIVE process_messages(_, _, _, _)
process_messages(messages, response_text, is_final, events) ==
    IF messages = <<>>
    THEN IF strip(response_text) # <<>>
         THEN Append(events, Event("text", is_final))
         ELSE events
    ELSE LET message == Head(messages)
             rest == Tail(messages)
         IN  IF message.type = "text"
             THEN process_messages(rest, response_text \o message.text, is_final, events)
             ELSE IF message.type = "tool_use"
             THEN process_messages(rest, FlushedText(response_text), is_final,
                      Append(FlushedEvents(events, response_text, is_final),
                             Event("tool_call", FALSE)))
             ELSE IF message.type = "ask"
             THEN Append(FlushedEvents(events, response_text, is_final),
                         Event("question", FALSE))                           \* return
             ELSE IF message.type = "tool_result"
             THEN process_messages(rest, response_text, is_final,
                                   Append(events, Event("tool_result", FALSE)))
             ELSE IF message.type = "system"
             THEN process_messages(rest, response_text \o message.text, is_final, events)
             ELSE IF message.type = "result"
             THEN process_messages(rest, response_text, TRUE, events)
             ELSE IF message.type = "result_error"
             THEN process_messages(rest, response_text \o message.text, TRUE, events)
             ELSE Append(events, Event("error", FALSE))                       \* except

\* process_response: response_text = '', is_final = False, then the loop
process_response(messages) == process_messages(messages, <<>>, FALSE, <<>>)

\* _query_and_process iterates one process_response to its end
ResponseProcessed ==
    /\ yielded = <<>>
    /\ yielded' = process_response(received)
    /\ UNCHANGED <<sessionVars, pending_permission, question, rules, hpc, hargs, perm, hret,
                   upd, turns, inflight, always_log, reason_log, snapshot, inputs, keyboards,
                   teleVars, sseVars, flagVars, downVars, fileVars, received>>

InitResponse ==
    /\ InitSession
    /\ InitServer
    /\ state_file = NoFile
    /\ _sessions = <<>>
    /\ received \in Streams
    /\ yielded = <<>>

NextResponse == ResponseProcessed

SpecResponse == InitResponse /\ [][NextResponse]_vars

\* ------------------------------------------------- handlers side by side
\* The session machine with the handlers of two tool calls in progress at
\* once: the SDK runs each can_use_tool request in a task of its own, and two
\* queries of one session can be in flight. The user presses Allow or Reject,
\* sends /new and /cancel, and takes up a teleport.
NextHandlers ==
    \/ \E i \in Slots, text \in {"t1"} : UserText(i, text)
    \/ \E i \in Slots, data \in {<<"perm", "allow">>, <<"perm", "reject">>} : UserPress(i, data)
    \/ \E i \in Slots : HandleMessage(i)
    \/ \E i \in Slots : HandleCallback(i)
    \/ \E i \in Slots : CallbackSetsEvent(i)
    \/ ConnectOk
    \/ FetchContext
    \/ QuerySent
    \/ \E h \in AllHandlers : CanUseTool(h, "Bash", BashCall(<<"a">>).input_data)
    \/ \E h \in AllHandlers : SendDelivered(h)
    \/ \E h \in AllHandlers : SendFailed(h)
    \/ \E h \in AllHandlers : HandlerWakes(h)
    \/ \E h \in AllHandlers : AgentTakes(h)
    \/ RecvResult
    \/ _handle_new
    \/ _handle_cancel
    \/ PostTeleport(TeleportT1)
    \/ handle_teleport
    \/ \E i \in Slots : _setup_session_from_teleport(i)
    \/ \E i \in Slots : TeleportConnected(i)

SpecHandlers == Init /\ [][NextHandlers]_vars

\* ------------------------------------------------------------ authorization
\* _check_auth failed: a message of a user gets 'Not authorized' and the
\* handler awaits that reply; a callback query, or an update without user,
\* is dropped at once
NotAuthorized(i) ==
    /\ upd[i].pc = "arrived"
    /\ ~_check_auth(upd[i].user)
    /\ IF upd[i].kind = "message" /\ upd[i].user # ""
       THEN Goto(i, "refusing", 0)
       ELSE Done(i)
    /\ UNCHANGED <<sessionVars, pending_permission, question, rules, hpc, hargs, perm, hret,
                   turns, inflight, always_log, reason_log, snapshot, inputs, extVars>>

\* the reply is sent: _check_auth returns False and the handler returns
NotAuthorizedReplied(i) ==
    /\ upd[i].pc = "refusing"
    /\ Done(i)
    /\ UNCHANGED <<sessionVars, pending_permission, question, rules, hpc, hargs, perm, hret,
                   turns, inflight, always_log, reason_log, snapshot, inputs, extVars>>

Commands == {"/new", "/cancel", "/cc", "/context", "/compact", "/todos"}

\* a command of a user: its handler, behind the _check_auth of its first line
Command(user, cmd) ==
    IF _check_auth(user)
    THEN IF cmd = "/new" THEN _handle_new
         ELSE IF cmd = "/cancel" THEN _handle_cancel
         ELSE IF cmd = "/cc" THEN _handle_cc
         ELSE IF cmd = "/context" THEN _handle_context
         ELSE IF cmd = "/compact" THEN _handle_compact
         ELSE _handle_todos
    ELSE /\ Received
         /\ UNCHANGED <<sessionVars, pending_permission, question, rules, hpc, hargs, perm,
                        hret, upd, turns, inflight, always_log, reason_log, snapshot, extVars>>

\* A fresh server that gets texts, button presses and commands from the
\* permitted user and from others, and a teleport from the terminal; the
\* agent asks for an edit.
NextAuth ==
    \/ \E i \in Slots, user \in Users : ArriveFrom(i, "message", <<"t1">>, user)
    \/ \E i \in Slots, user \in Users, data \in {<<"perm", "allow">>, <<"perm", "reject">>} :
           ArriveFrom(i, "callback", data, user)
    \/ \E user \in Users, cmd \in Commands : Command(user, cmd)
    \/ \E i \in Slots : NotAuthorized(i)
    \/ \E i \in Slots : NotAuthorizedReplied(i)
    \/ \E i \in Slots : HandleMessage(i)
    \/ \E i \in Slots : HandleCallback(i)
    \/ \E i \in Slots : CallbackSetsEvent(i)
    \/ PostTeleport(TeleportT1)
    \/ handle_teleport
    \/ \E i \in Slots : _setup_session_from_teleport(i)
    \/ \E i \in Slots : TeleportConnected(i)
    \/ ConnectOk
    \/ FetchContext
    \/ QuerySent
    \/ \E h \in Handlers : CanUseTool(h, "Edit", FileCall("Edit").input_data)
    \/ \E h \in Handlers : SendDelivered(h)
    \/ \E h \in Handlers : HandlerWakes(h)
    \/ \E h \in Handlers : AgentTakes(h)
    \/ RecvResult

SpecAuth == Init /\ [][NextAuth]_vars

\* ------------------------------------------------------- callback payloads
\* A fresh server whose user sends a text and callback queries of any
\* payload, the buttons of the keyboards and others; the agent asks for an
\* edit or asks two questions.
Payloads ==
    {<<"perm", "allow">>, <<"perm", "accept_edits">>, <<"perm", "bogus">>, <<"x", "y">>,
     <<"q", "0">>, <<"q", "0", "x">>, <<"q", "0", "9">>, <<"q", "0", "-1">>,
     <<"q", "0", "1">>, <<"mode", "plan">>, <<"mode", "bogus">>}

\* a callback query reaches the bot: Telegram hands over whatever data the
\* client sent
AnyCallback(i, data) == Arrive(i, "callback", data)

NextCallback ==
    \/ \E i \in Slots : UserText(i, "t1")
    \/ \E i \in Slots, data \in Payloads : AnyCallback(i, data)
    \/ \E i \in Slots : HandleMessage(i)
    \/ \E i \in Slots : HandleCallback(i)
    \/ \E i \in Slots : CallbackSetsEvent(i)
    \/ \E i \in Slots : QuestionCallbackContinues(i)
    \/ ConnectOk
    \/ FetchContext
    \/ QuerySent
    \/ \E h \in Handlers : CanUseTool(h, "Edit", FileCall("Edit").input_data)
    \/ \E h \in Handlers : SendDelivered(h)
    \/ \E h \in Handlers : HandlerWakes(h)
    \/ \E h \in Handlers : AgentTakes(h)
    \/ RecvQuestion(MaxQuestions)
    \/ QuestionShown
    \/ RecvResult

SpecCallback == Init /\ [][NextCallback]_vars

\* --------------------------------------------------------- the state file
\* SessionManager.save_state and load_state on any registry and any file.
\* A registry is the list of its frontend user ids, in the order they were
\* mapped, each with its Session; a file is absent, text that is no JSON, or
\* the JSON object: its entries in order, every value as JSON writes it.
Identities == {"u1", "u2"}
Missing == "<missing>"     \* a key the entry does not have
Garbage == [kind |-> "garbage", data |-> <<>>]     \* text json.loads rejects
Json(data) == [kind |-> "json", data |-> data]      \* a JSON object, its items in order

\* json.dumps and json.loads of the values of an entry: None, bool, str
json_dumps(v) == IF v = "" THEN "null" ELSE v
json_dumps_bool(v) == IF v THEN "true" ELSE "false"
json_loads(v) == IF v = "null" THEN "" ELSE v
json_bool(v) == v = "true"

\* state.get(key, default)
get(v, default) == IF v = Missing THEN default ELSE json_loads(v)

\* the live sessions the registry is drawn from
LiveSessions ==
    {[id |-> "i1", claude_session_id |-> csid, terminal_id |-> tid, cwd |-> dir,
      is_processing |-> busy, permission_mode |-> mode, client |-> busy,
      pending_permission |-> busy, pending_question |-> FALSE,
      event_queue |-> IF tid = "" THEN <<>> ELSE <<"return_to_terminal">>] :
        csid \in {"", "s1"}, tid \in {"", "T1"}, dir \in {"/a"}, busy \in BOOLEAN,
        mode \in {"default", "plan"}}

\* Session.id, a uuid of its own for every session
IdOf(u) == IF u = "u1" THEN "i1" ELSE "i2"
Bindings ==
    {[frontend_id |-> u, session |-> [x EXCEPT !.id = IdOf(u)]] :
        u \in Identities, x \in LiveSessions}
Registries ==
    {<<>>} \cup {<<b>> : b \in Bindings}
           \cup {<<b, c>> : b \in {x \in Bindings : x.frontend_id = "u1" /\ x.session.cwd = "/a"
                                                  /\ ~x.session.is_processing},
                           c \in {x \in Bindings : x.frontend_id = "u2"
                                                  /\ x.session.terminal_id = ""}}

\* the entry save_state writes for a mapped session
Entry(b) ==
    [frontend_id |-> b.frontend_id,
     session_id |-> json_dumps(b.session.id),
     claude_session_id |-> json_dumps(b.session.claude_session_id),
     terminal_id |-> json_dumps(b.session.terminal_id),
     cwd |-> json_dumps(b.session.cwd),
     is_processing |-> json_dumps_bool(b.session.is_processing),
     permission_mode |-> json_dumps(b.session.permission_mode)]

\* entries a file found at startup may hold: written ones, and ones that
\* lack keys
FoundEntries ==
    {[frontend_id |-> u, session_id |-> IF keyed THEN IdOf(u) ELSE Missing,
      claude_session_id |-> "s1", terminal_id |-> tid, cwd |-> "/a",
      is_processing |-> "false", permission_mode |-> mode] :
        u \in Identities, keyed \in BOOLEAN, tid \in {"null", Missing},
        mode \in {"plan", Missing}}
Files ==
    {NoFile, Garbage} \cup {Json(<<e>>) : e \in FoundEntries}
        \cup {Json(<<e, f>>) : e \in {x \in FoundEntries : x.frontend_id = "u1"},
                        f \in {x \in FoundEntries : x.frontend_id = "u2" /\ x.terminal_id = "null"}}

\* the dict save_state builds: the mapped sessions that know their
\* conversation id, in the order of the mappings
RECURSIVE state_of(_)
state_of(registry) ==
    IF registry = <<>> THEN <<>>
    ELSE IF Head(registry).session.claude_session_id # ""
    THEN <<Entry(Head(registry))>> \o state_of(Tail(registry))
    ELSE state_of(Tail(registry))

\* SessionManager.save_state: a non-empty dict is written, an empty one
\* unlinks the file
save_state_file ==
    /\ state_file' = IF state_of(_sessions) # <<>> THEN Json(state_of(_sessions)) ELSE NoFile
    /\ UNCHANGED <<sessionVars, pending_permission, question, rules, hpc, hargs, perm, hret,
                   upd, turns, inflight, always_log, reason_log, snapshot, inputs, keyboards,
                   teleVars, sseVars, flagVars, downVars, _sessions, respVars>>

\* a Session built with the mode the dataclass defaults to
SessionDefaultMode(state) ==
    [id |-> json_loads(state.session_id),
     claude_session_id |-> get(state.claude_session_id, ""),
     terminal_id |-> get(state.terminal_id, ""),
     cwd |-> get(state.cwd, "/"),
     is_processing |-> json_bool(get(state.is_processing, "false")),
     permission_mode |-> "default",
     client |-> FALSE, pending_permission |-> FALSE, pending_question |-> FALSE,
     event_queue |-> <<>>]

\* Session(id=state['session_id'], claude_session_id=state.get(...), ...)
Session(state) ==
    [id |-> json_loads(state.session_id),
     claude_session_id |-> get(state.claude_session_id, ""),
     terminal_id |-> get(state.terminal_id, ""),
     cwd |-> get(state.cwd, "/"),
     is_processing |-> json_bool(get(state.is_processing, "false")),
     permission_mode |-> get(state.permission_mode, "default"),
     client |-> FALSE, pending_permission |-> FALSE, pending_question |-> FALSE,
     event_queue |-> <<>>]

\* self._frontend_mappings[frontend_id] = session.id
Bind(registry, frontend_id, session) ==
    IF \E k \in 1..Len(registry) : registry[k].frontend_id = frontend_id
    THEN [k \in 1..Len(registry) |->
             IF registry[k].frontend_id = frontend_id
             THEN [frontend_id |-> frontend_id, session |-> session]
             ELSE registry[k]]
    ELSE Append(registry, [frontend_id |-> frontend_id, session |-> session])

\* the loop of load_state: one entry after the other is registered; the
\* KeyError of state['session_id'] leaves the loop and is passed over
RECURSIVE load_entries(_, _)
load_entries(data, registry) ==
    IF data = <<>> THEN registry
    ELSE IF Head(data).session_id = Missing THEN registry
    ELSE load_entries(Tail(data), Bind(registry, Head(data).frontend_id, Session(Head(data))))

\* SessionManager.load_state on a registry
load_state_file(registry, file) ==
    IF file.kind = "absent" THEN registry
    ELSE IF file.kind = "garbage" THEN registry      \* JSONDecodeError: pass
    ELSE load_entries(file.data, registry)

\* run_server of a new process: a new SessionManager loads the state file
run_server ==
    /\ _sessions' = load_state_file(<<>>, state_file)
    /\ UNCHANGED <<sessionVars, pending_permission, question, rules, hpc, hargs, perm, hret,
                   upd, turns, inflight, always_log, reason_log, snapshot, inputs, keyboards,
                   teleVars, sseVars, flagVars, downVars, state_file, respVars>>

InitStateFile ==
    /\ InitSession
    /\ InitServer
    /\ state_file \in Files
    /\ _sessions \in Registries
    /\ received = <<>>
    /\ yielded = <<>>

NextStateFile ==
    \/ save_state_file
    \/ run_server

SpecStateFile == InitStateFile /\ [][NextStateFile]_vars

\* ------------------------------------------------------- the reload cycle
\* A fresh server whose code changes: the user sends texts, the agent answers,
\* the watcher requests, forces and prepares reloads and restarts the server.
NextReload ==
    \/ \E i \in Slots : UserText(i, "t1")
    \/ \E i \in Slots : HandleMessage(i)
    \/ ConnectOk
    \/ FetchContext
    \/ QuerySent
    \/ RecvResult
    \/ _handle_new
    \/ handle_request_reload
    \/ handle_force_reload
    \/ \E drained \in BOOLEAN : handle_prepare_reload(drained)
    \/ PrepareReloadAborted
    \/ load_state

SpecReload == Init /\ [][NextReload]_vars

\* ---------------------------------------------------------------- fairness
\* The event loop runs every coroutine that is ready: an update that arrived
\* is dispatched, an awaited chat edit completes, a task whose event was set
\* is resumed.
Fairness ==
    /\ WF_vars(\E i \in Slots : HandleCallback(i))
    /\ WF_vars(\E i \in Slots : CallbackSetsEvent(i))
    /\ WF_vars(\E h \in Handlers : HandlerWakes(h))

LiveSpec == Init /\ [][Next]_vars /\ Fairness

\* ------------------------------------------------------------------ claims
\* C1: in every reachable state pending_permission and pending_question are
\* not both non-null
C1_AtMostOnePending == pending_permission = 0 \/ pending_question = 0

\* C2: a session without an agent handle has neither a pending permission
\* nor a pending question
C2_NoPendingWithoutHandle ==
    ~client => pending_permission = 0 /\ pending_question = 0

\* coroutines that are inside _query_and_process with a stream to consume
StreamConsumers == turns["query"] + turns["recv"] + turns["asked"] + turns["closed"]

\* C3: is_processing is true only while a response stream of the session is
\* being consumed
C3_ProcessingOnlyWhileConsumed == is_processing => StreamConsumers > 0

\* C5: a handler blocked on its pending leaves the wait only by the pending's
\* event being set (or by the client being disconnected, which cancels it);
\* it then returns the result recorded on the pending and clears the slot
C5_ReturnsRecordedDecision ==
    [][\A h \in Handlers :
          hpc[h] = "waiting" /\ hpc'[h] # "waiting" =>
              IF hpc'[h] = "returned"
              THEN /\ perm[h].event
                   /\ perm[h].result # NoResult
                   /\ hret'[h] = perm[h].result
                   /\ pending_permission' = 0
              ELSE hpc'[h] = "idle" /\ ~client']_vars

\* a handler has returned the deny that was recorded on its pending
C5_Witness ==
    \E h \in Handlers :
        /\ hpc[h] = "returned"
        /\ perm[h].event
        /\ perm[h].result.behavior = "deny"
        /\ hret[h] = perm[h].result
        /\ pending_permission = 0

\* C6: when the send of the approval UI times out or raises, the handler
\* returns allow and pending_permission is null when it returns
C6_FailOpen ==
    [][\A h \in Handlers :
          hpc[h] = "sending" /\ hpc'[h] = "returned" =>
              hret'[h] = Allow /\ pending_permission' = 0]_vars

\* a handler has returned allow for a pending nobody decided
C6_Witness ==
    \E h \in Handlers :
        /\ hpc[h] = "returned"
        /\ perm[h].tool_name # ""
        /\ ~perm[h].event
        /\ perm[h].result = NoResult
        /\ hret[h] = Allow
        /\ pending_permission = 0

\* a text message leaves the handler's queue
Consumed(i) ==
    /\ upd[i].kind = "message"
    /\ upd[i].pc = "arrived"
    /\ upd'[i] = NoUpdate
    /\ inputs' = inputs

\* the text became the deny of pending h, and nothing else
AsRejectionReason(h, text) ==
    /\ ~waiting_for_rejection_reason'
    /\ perm' = [perm EXCEPT ![h].result = [behavior |-> "deny", message |-> text,
                                           interrupt |-> FALSE],
                            ![h].event = TRUE]
    /\ UNCHANGED <<question, pending_question, waiting_for_answer, turns, is_processing>>

\* C8: after a Reject press the next text is not sent as a query but resolves
\* that pending with deny(text, interrupt=false) and clears the flag, and the
\* blocked handler returns that deny
C8_RejectReasonIsReturned ==
    [][/\ \A i \in Slots :
            Consumed(i) /\ waiting_for_rejection_reason /\ pending_permission # 0 =>
                AsRejectionReason(pending_permission, upd[i].data[1])
       /\ \A h \in Handlers :
            hpc[h] = "waiting" /\ hpc'[h] = "returned" /\ reason_log[h] # NoResult =>
                hret'[h] = reason_log[h]]_vars

\* the text went to the custom-answer branch: its flag is cleared, no
\* permission is touched
AsCustomAnswer(text) ==
    /\ ~waiting_for_answer'
    /\ question.current_question_idx < question.n =>
           /\ question'.answers[question.current_question_idx + 1] = text
           /\ question'.current_question_idx = question.current_question_idx + 1
    /\ UNCHANGED <<perm, waiting_for_rejection_reason, is_processing>>

\* the text started a turn of its own
AsQuery ==
    /\ NTurns' = NTurns + 1
    /\ client => is_processing'
    /\ UNCHANGED <<perm, question, pending_question, waiting_for_rejection_reason,
                   waiting_for_answer>>

\* C9: a text message is consumed as a rejection reason when one is awaited
\* on a pending permission, otherwise as a custom answer when one is awaited
\* on a pending question, otherwise as a query
C9_ConsumedByPriority ==
    [][\A i \in Slots :
          Consumed(i) =>
              IF waiting_for_rejection_reason /\ pending_permission # 0
              THEN AsRejectionReason(pending_permission, upd[i].data[1])
              ELSE IF waiting_for_answer /\ pending_question # 0
              THEN AsCustomAnswer(upd[i].data[1])
              ELSE AsQuery]_vars

\* a text became a rejection reason while a custom answer was awaited too
C9_Witness ==
    \E h \in Handlers :
        /\ reason_log[h] # NoResult
        /\ perm[h].result = reason_log[h]
        /\ waiting_for_answer
        /\ pending_question # 0

\* what the claim takes as the first word of a Bash command
ClaimBasename(command) == IF split(command) = <<>> THEN <<>> ELSE split(command)[1]

\* the cases in which the claim says the call is allowed without a pending
ClaimAllows(call, mode, allow) ==
    \/ mode = "bypassPermissions"
    \/ mode = "acceptEdits" /\ call.tool_name \in {"Edit", "Write", "NotebookEdit", "MultiEdit"}
    \/ call.tool_name \notin {"Edit", "Write", "Bash", "NotebookEdit"}
    \/ /\ call.tool_name = "Bash"
       /\ \/ Rule("Bash", ClaimBasename(Get(call.input_data, "command")) \o <<":", "*">>)
                \in allow
          \/ Rule("Bash", <<"*">>) \in allow
    \/ /\ call.tool_name # "Bash"
       /\ generate_permission_rule(call.tool_name, call.input_data) \in allow

\* invocation h starts in this step
Invoked(h) == hpc[h] = "idle" /\ hpc'[h] # "idle"

AllowedAtOnce(h) ==
    /\ hpc'[h] = "returned"
    /\ hret'[h] = Allow
    /\ pending_permission' = pending_permission
    /\ perm'[h] = NoPending

\* C4: the coordinator allows without a PendingPermission exactly in the
\* listed cases (bypass, acceptEdits on an edit tool, tool needing no
\* approval, matching rule) and otherwise attaches a new PendingPermission
C4_AllowsExactlyWhenListed ==
    [][\A h \in Handlers :
          Invoked(h) =>
              IF ClaimAllows(hargs'[h], permission_mode, rules)
              THEN AllowedAtOnce(h)
              ELSE /\ hpc'[h] = "sending"
                   /\ pending_permission' = h
                   /\ perm'[h].tool_name = hargs'[h].tool_name
                   /\ perm'[h].input_data = hargs'[h].input_data]_vars

\* C10: once a call of an approval-required tool was answered 'always', the
\* coordinator allows the same call without a PendingPermission
C10_AlwaysThenAutoAllow ==
    [][\A h \in Handlers :
          /\ Invoked(h)
          /\ hargs'[h] \in always_log
          /\ hargs'[h].tool_name \in APPROVAL_REQUIRED_TOOLS
          => AllowedAtOnce(h)]_vars

\* C7: while a handler is blocked on its pending inside a turn whose stream is
\* being read, an allow press that arrived is handled and the handler leaves
\* its wait (unless the request was replaced on the session meanwhile)
AllowPressed(h) ==
    /\ hpc[h] = "waiting"
    /\ pending_permission = h
    /\ turns["recv"] > 0
    /\ \E i \in Slots : upd[i].pc = "arrived" /\ upd[i].data = <<"perm", "allow">>

ClaimBasenames(command) ==
    {ClaimBasename(command)}
        \cup (IF shlex_split(command).ok /\ shlex_split(command).tokens # <<>>
              THEN {shlex_split(command).tokens[1]} ELSE {})

\* the claim's acceptance test: ends with `*`, non-empty prefix, prefix
\* tokens an ordered subsequence of the command's tokens
ClaimAccepts(pattern, command) ==
    LET prefix == strip(rstrip(pattern, {" ", "*"}))
    IN  /\ endswith(pattern, <<"*">>)
        /\ prefix # <<>>
        /\ \/ IsSubsequence(split(prefix), split(command))
           \/ /\ shlex_split(prefix).ok /\ shlex_split(command).ok
              /\ IsSubsequence(shlex_split(prefix).tokens, shlex_split(command).tokens)

\* the rule is an accepted pattern, or the fallback of the command after the
\* last retry; never the bare wildcard
ClaimRule(rule, command, attempt) ==
    /\ rule # Rule("Bash", <<"*">>)
    /\ \/ /\ Len(rule) >= 3
          /\ rule = Rule("Bash", SubSeq(rule, 3, Len(rule) - 1))
          /\ ClaimAccepts(SubSeq(rule, 3, Len(rule) - 1), command)
       \/ /\ attempt <= max_retries
          /\ \E basename \in ClaimBasenames(command) :
                 rule = Rule("Bash", basename \o <<":", "*">>)

\* C11: the rule saved for an 'always' answer to a Bash call is an accepted
\* pattern (ends with `*`, non-empty prefix, prefix tokens an ordered
\* subsequence of the command's tokens) or, after at most two retries, the
\* fallback Bash(<basename>:*) of that command, and never the bare wildcard
C11_SmartRuleMatchesCommand ==
    [][\A i \in Slots :
          upd[i].pc = "generating" /\ upd'[i].pc = "editing" =>
              \E rule \in rules' :
                  /\ rules' = rules \cup {rule}
                  /\ ClaimRule(rule, Get(perm[upd[i].ref].input_data, "command"),
                               upd[i].attempt)]_vars

\* the 'Accept Edits' press in slot i is applied to pending h in this step
AcceptEditsApplied(i, h) ==
    /\ upd[i].pc = "arrived"
    /\ upd[i].data = <<"perm", "accept_edits">>
    /\ pending_permission = h
    /\ upd'[i].pc = "editing"
    /\ upd'[i].ref = h

\* C12: the accept-edits decision is applied only to a pending of an edit
\* tool, it sets the mode to acceptEdits and allows the call; while the mode
\* is acceptEdits every Edit, Write, NotebookEdit and MultiEdit call is
\* allowed without a PendingPermission
C12_AcceptEditsOnlyForEditTools ==
    [][/\ \A i \in Slots, h \in Handlers :
            AcceptEditsApplied(i, h) =>
                /\ perm[h].tool_name \in {"Edit", "Write", "NotebookEdit", "MultiEdit"}
                /\ permission_mode' = "acceptEdits"
                /\ perm'[h].result = Allow
       /\ \A h \in Handlers :
            /\ Invoked(h)
            /\ permission_mode = "acceptEdits"
            /\ hargs'[h].tool_name \in {"Edit", "Write", "NotebookEdit", "MultiEdit"}
            => AllowedAtOnce(h)]_vars

\* the option press in slot i is handled in this step, with a question left
\* to answer
OptionPressed(i) ==
    /\ upd[i].kind = "callback"
    /\ upd[i].pc = "arrived"
    /\ upd[i].data[1] = "q"
    /\ upd[i].data[3] # "other"
    /\ upd'[i] # upd[i]
    /\ inputs' = inputs
    /\ pending_question # 0
    /\ question.current_question_idx < question.n

\* the text in slot i is taken as the custom answer in this step, with a
\* question left to answer
CustomAnswered(i) ==
    /\ Consumed(i)
    /\ ~(waiting_for_rejection_reason /\ pending_permission # 0)
    /\ waiting_for_answer
    /\ pending_question # 0
    /\ question.current_question_idx < question.n

\* the handler of the update in slot i sends the answers to the agent in
\* this step
AnswersSubmitted(i) ==
    /\ \/ upd[i].pc = "q_edit"
       \/ CustomAnswered(i)
    /\ upd'[i] = NoUpdate
    /\ inputs' = inputs
    /\ turns'["query"] = turns["query"] + 1

\* C13: each answering action (option press, custom text) records the answer
\* of the question at the cursor and advances the cursor by one; the answers
\* are sent to the agent when the cursor has reached N, once, and the
\* pending question is cleared with it
C13_AnswersSubmittedOnce ==
    [][/\ \A i \in Slots : OptionPressed(i) => question' = Answered(selected_label(upd[i].data[3]))
       /\ \A i \in Slots : CustomAnswered(i) => question' = Answered(upd[i].data[1])
       /\ \A i \in Slots :
            AnswersSubmitted(i) =>
                /\ pending_question # 0
                /\ pending_question' = 0
                /\ question'.current_question_idx = question.n]_vars

\* C14: when /new has been handled the session has no agent handle, no
\* pending question, no pending permission, is not processing, and no
\* teleport is pending for the user
C14_NewClearsSession ==
    [][_handle_new =>
          /\ ~client'
          /\ pending_question' = 0
          /\ pending_permission' = 0
          /\ ~is_processing'
          /\ pending_teleport' = [session_id |-> "", cwd |-> "", terminal_id |-> "",
                                  permission_mode |-> ""]]_vars

\* /new was handled while a tool call waited for approval and a teleport was
\* pending: the handler is cancelled, the teleport gone without being applied
C14_Witness ==
    /\ ~client
    /\ ~is_processing
    /\ pending_question = 0
    /\ pending_permission = 0
    /\ pending_teleport = NoTeleport
    /\ accepted # <<>>
    /\ cwd = "/"
    /\ \E h \in Handlers : perm[h].tool_name # "" /\ hpc[h] = "idle"

\* C19: one teleport at most is pending for the user, and it is the one
\* accepted last: every accepted POST /teleport replaces the pending one
C19_MostRecentTeleportWins ==
    /\ [](pending_teleport # NoTeleport =>
              accepted # <<>> /\ pending_teleport = accepted[Len(accepted)])
    /\ [][Len(accepted') > Len(accepted) =>
              /\ request # NoRequest
              /\ accepted'[Len(accepted')].session_id = request.session_id
              /\ accepted'[Len(accepted')].terminal_id = request.terminal_id
              /\ pending_teleport' = accepted'[Len(accepted')]]_vars

\* a second, different teleport replaced the pending one
C19_Witness ==
    /\ Len(accepted) = 2
    /\ accepted[1] # accepted[2]
    /\ pending_teleport = accepted[2]
    /\ cwd = "/"

\* the text in slot i is dispatched to _handle_message in this step
MessageDispatched(i) ==
    /\ upd[i].kind = "message"
    /\ upd[i].pc = "arrived"
    /\ upd'[i] # upd[i]
    /\ inputs' = inputs

\* C20: a text message handled while a teleport is pending removes it and
\* makes the session's cwd, mode (validated, else 'default') and terminal_id
\* those of the request; the agent is connected with resume = the request's
\* session_id only if that conversation can be resumed; a message handled
\* with no teleport pending applies none
C20_TeleportConsumedOnce ==
    [][\A i \in Slots :
          MessageDispatched(i) =>
              IF pending_teleport # NoTeleport
              THEN /\ pending_teleport' = NoTeleport
                   /\ cwd' = pending_teleport.cwd
                   /\ terminal_id' = pending_teleport.terminal_id
                   /\ permission_mode' =
                          IF pending_teleport.permission_mode
                                 \in {"default", "acceptEdits", "plan", "bypassPermissions"}
                          THEN pending_teleport.permission_mode ELSE "default"
                   /\ upd'[i].pc = "tp_connect"
                   /\ resume' = IF <<pending_teleport.session_id, pending_teleport.cwd>> \in logs
                                THEN pending_teleport.session_id ELSE ""
              ELSE UNCHANGED <<cwd, terminal_id, permission_mode, pending_teleport>>]_vars

\* a teleport of a conversation that cannot be resumed was applied: the
\* agent is connected as a fresh session, in the request's directory
C20_Witness ==
    /\ client
    /\ resume = ""
    /\ claude_session_id = ""
    /\ cwd = "/b"
    /\ terminal_id = "T2"
    /\ permission_mode = "default"
    /\ pending_teleport = NoTeleport
    /\ \E i \in Slots : upd[i].pc = "teleported"

\* ------------------------------------------------------------ C15 .. C18
\* the events occur among the frames, in the order of the events
RECURSIVE InOrder(_, _)
InOrder(events, frames) ==
    IF events = <<>> THEN TRUE
    ELSE IF frames = <<>> THEN FALSE
    ELSE IF Head(events) = Head(frames) THEN InOrder(Tail(events), Tail(frames))
    ELSE InOrder(events, Tail(frames))

\* the events of the session produced since consumer c connected
ProducedSince(c) == SubSeq(produced, sse[c].since + 1, Len(produced))

\* C15: every event produced for the session is delivered to every open
\* consumer, in the order produced, a tool result after its tool call. The
\* queue is the only way to a consumer, so a consumer that waits on an empty
\* queue has been written every event produced since it connected.
C15_EventsReachEveryConsumer ==
    \A c \in Consumers :
        sse[c].pc = "get" /\ event_queue = <<>>
            => InOrder(ProducedSince(c), sse[c].written)

\* the bound the channel is checked against: less than the events of one run
ChannelBound == 2

\* C16: the event channel of the session is bounded: the number of queued
\* undelivered events never exceeds the bound.
C16_ChannelBounded == Len(event_queue) <= ChannelBound

\* consumer c listens for a terminal that is no longer the session's
Superseded(c) ==
    /\ sse[c].pc # "closed"
    /\ terminal_id # ""
    /\ terminal_id # sse[c].terminal_id

\* C17: once a teleport of another terminal is accepted, the next frame an
\* open consumer writes is 'superseded' (no keepalive, no queued event), one
\* such frame, and the consumer is closed with it.
C17_SupersededIsNextFrame ==
    [][\A c \in Consumers :
          Superseded(c) /\ sse'[c].written # sse[c].written
              => /\ sse'[c].written = Append(sse[c].written, "superseded")
                 /\ sse'[c].pc = "closed"]_vars

\* the last frame written to consumer c closes the stream
WroteLast(c) ==
    /\ sse[c].written # <<>>
    /\ sse[c].written[Len(sse[c].written)] \in {"return_to_terminal", "superseded"}

\* consumer c writes a frame that closes the stream in this step
WritesLast(c) ==
    /\ sse'[c].written # sse[c].written
    /\ sse'[c].written # <<>>
    /\ sse'[c].written[Len(sse'[c].written)] \in {"return_to_terminal", "superseded"}

\* C18: a consumer that wrote 'return_to_terminal' or 'superseded' has left
\* its loop and writes nothing more, and the connection count is decremented
\* once for it, in the step that writes the frame.
C18_TerminalEventClosesConsumer ==
    /\ [](\A c \in Consumers : WroteLast(c) => sse[c].pc = "closed")
    /\ [][\A c \in Consumers :
            WritesLast(c) => /\ sse'[c].pc = "closed"
                             /\ _sse_connection_count' = _sse_connection_count - 1]_vars

\* one consumer left on 'return_to_terminal' while another one still listens
C18_Witness ==
    \E c, d \in Consumers :
        /\ sse[c].pc = "closed"
        /\ sse[c].written # <<>>
        /\ sse[c].written[Len(sse[c].written)] = "return_to_terminal"
        /\ sse[d].pc = "get"
        /\ _sse_connection_count = 1

\* ------------------------------------------------------------ C21 .. C30
\* C21: a connection with a resume id that fails is tried again once without
\* resume: the attempt that follows the failure, for the same message, has
\* resume = None.
C21_ResumeFailureRetriedFresh ==
    [][/\ ConnectFails /\ resume # ""
           => turns'["connecting"] = turns["connecting"] /\ resume' = ""
       /\ \A i \in Slots :
              /\ upd[i].pc = "teleported"
              /\ resume # ""
              /\ HandleMessage(i)
              /\ turns'["connecting"] > turns["connecting"]
              => resume' = ""]_vars

\* C22: /cc with a known conversation id enqueues one return_to_terminal event
\* and leaves the session without agent handle; with no conversation id it
\* enqueues nothing.
C22_CcReleasesHandle ==
    [][_handle_cc =>
          IF claude_session_id # ""
          THEN /\ event_queue' = Append(event_queue, "return_to_terminal")
               /\ ~client'
          ELSE event_queue' = event_queue]_vars

\* C23: /api/can-reload answers can_reload = false while the session is
\* processing and no force-reload was posted, and can_reload = true once the
\* session is idle or force-reload was posted; the coordinator's wait then ends.
C23_CanReloadWhenIdleOrForced ==
    /\ handle_can_reload.can_reload = (~is_processing \/ force_reload)
    /\ ~is_processing \/ force_reload => wait_for_idle(handle_can_reload)

\* C24: a prepare-reload request, whatever fails in it, leaves the session
\* without agent handle, both reload flags cleared, and the snapshot of a
\* session with a known conversation id written.
C24_PrepareReloadAlwaysSucceeds ==
    [][(\E drained \in BOOLEAN : handle_prepare_reload(drained)) \/ PrepareReloadAborted
          => /\ ~client'
             /\ ~reload_pending'
             /\ ~force_reload'
             /\ claude_session_id # ""
                   => snapshot' = save_state(claude_session_id, is_processing', permission_mode)]_vars

\* the frontend user id is mapped in the registry / the session it is mapped to
Bound(registry, u) == \E k \in 1..Len(registry) : registry[k].frontend_id = u
SessionOf(registry, u) ==
    registry[CHOOSE k \in 1..Len(registry) : registry[k].frontend_id = u].session

\* the file is what save_state wrote from the registry, and it wrote some
Saved ==
    /\ state_of(_sessions) # <<>>
    /\ state_file = Json(state_of(_sessions))

\* C25: after save_state, a restart with an empty registry and load_state,
\* every persisted identity is mapped to a session with the recorded
\* conversation id, cwd, terminal id and mode, with no pending permission or
\* question, an empty event queue and no agent handle.
C25_StateRoundTrip ==
    [][run_server /\ Saved =>
          \A k \in 1..Len(_sessions) :
              LET u == _sessions[k].frontend_id
                  old == _sessions[k].session
              IN  old.claude_session_id # "" =>
                      /\ Bound(_sessions', u)
                      /\ SessionOf(_sessions', u).claude_session_id = old.claude_session_id
                      /\ SessionOf(_sessions', u).cwd = old.cwd
                      /\ SessionOf(_sessions', u).terminal_id = old.terminal_id
                      /\ SessionOf(_sessions', u).permission_mode = old.permission_mode
                      /\ ~SessionOf(_sessions', u).pending_permission
                      /\ ~SessionOf(_sessions', u).pending_question
                      /\ SessionOf(_sessions', u).event_queue = <<>>
                      /\ ~SessionOf(_sessions', u).client]_vars

\* a session bound to a terminal and in plan mode came back from the file
C25_Witness ==
    /\ Saved
    /\ \E k \in 1..Len(_sessions) :
           /\ _sessions[k].session.terminal_id = "T1"
           /\ _sessions[k].session.permission_mode = "plan"
           /\ _sessions[k].session.event_queue = <<>>

\* C26: the state file is written by the save_state of prepare-reload only,
\* and it is deleted once a startup has restored from it.
C26_SnapshotDeletedAfterRestore ==
    [][/\ state_file' # state_file => save_state_file
       /\ run_server /\ state_file.kind = "json" /\ _sessions' # <<>>
              => state_file' = NoFile]_vars

\* the file cannot be decoded: no JSON, or an entry without 'session_id'
Undecodable(file) ==
    \/ file.kind = "garbage"
    \/ /\ file.kind = "json"
       /\ \E k \in 1..Len(file.data) : file.data[k].session_id = Missing

\* C27: load_state on a snapshot that cannot be decoded registers none of
\* its sessions: the registry of the new process stays empty.
C27_UndecodableSnapshotLoadsNothing ==
    [][run_server /\ Undecodable(state_file) => _sessions' = <<>>]_vars

\* some /stream connection was opened and all of them are closed
ConsumersClosed ==
    /\ _sse_connection_count = 0
    /\ \E c \in Consumers : sse[c].written # <<>>

\* C28: the shutdown event is set only where no /stream connection is open, the
\* session has no agent handle and a wrapper started the server; and under a
\* wrapper, once every connection has closed and the handle is gone, in either
\* order, the shutdown event is eventually set
C28_ShutdownWhenUnused ==
    /\ [][~shutdown_event /\ shutdown_event'
              => _sse_connection_count' = 0 /\ ~client' /\ wrapper_pid']_vars
    /\ (wrapper_pid /\ ConsumersClosed /\ ~client ~> shutdown_event)

\* the payloads the callback schema does not have
UnknownPrefix(data) == data[1] \notin {"perm", "q", "mode", "model"}
UnknownAction(data) ==
    data[1] = "perm" /\ data[2] \notin {"allow", "always", "accept_edits", "reject"}
BadOption(data) ==
    /\ data[1] = "q"
    /\ \/ Len(data) < 3
       \/ /\ data[3] # "other"
          /\ \/ ~int(data[3]).ok
             \/ int(data[3]).value \notin 0..(Len(options) - 1)
UnknownMode(data) == data[1] = "mode" /\ data[2] \notin VALID_MODES
InvalidPayload(data) ==
    UnknownPrefix(data) \/ UnknownAction(data) \/ BadOption(data) \/ UnknownMode(data)

\* what the session keeps of mode, pendings and flags
CallbackState ==
    <<permission_mode, pending_permission, perm, pending_question, question,
      waiting_for_rejection_reason, waiting_for_answer>>

\* C29: the handling of a callback whose payload the schema does not have
\* leaves the mode, the pending permission, the pending question with its
\* answers and cursor, and the waiting flags as they were
C29_InvalidCallbackIgnored ==
    [][\A i \in Slots :
          HandleCallback(i) /\ InvalidPayload(upd[i].data) => UNCHANGED CallbackState]_vars

\* C30: when the stream of a turn raises, the error is sent as a final text,
\* the session is idle and has no agent handle any more
C30_StreamErrorDropsHandle ==
    [][RecvError => /\ produced' = Append(produced, "error")
                    /\ ~is_processing'
                    /\ ~client']_vars

\* ---------------------------------------------------------- C31 .. C40
\* coroutines of the session that have sent a query whose result has not come,
\* or are sending one
QueriesInFlight == turns["query"] + turns["recv"]

\* C31: at no instant is more than one query and response stream of the
\* session in flight; a text or a /context, /compact, /todos that arrives
\* during a turn starts no second one
C31_OneQueryInFlight == QueriesInFlight <= 1

\* the handler of the update in slot i, which is not of the permitted user,
\* takes a step
StrangerHandled(i) ==
    /\ upd[i] # NoUpdate
    /\ upd[i].user # allowed_user_id
    /\ upd'[i] # upd[i]

\* the session's fields, the pendings, the pending teleport, the allow-list,
\* the terminal's channel and what is under way with the agent
Protected ==
    <<sessionVars, pending_permission, perm, question, pending_teleport, terminal_id, cwd,
      rules, hpc, hret, turns, inflight, event_queue, resume>>

\* C32: a text, a button press or a command that is not of the permitted
\* user changes no session field, no pending teleport, permission or question,
\* and sends nothing to the agent
C32_StrangersChangeNothing ==
    [][/\ \A i \in Slots : StrangerHandled(i) => UNCHANGED Protected
       /\ \A user \in Users \ {allowed_user_id}, cmd \in Commands :
              Command(user, cmd) => UNCHANGED Protected]_vars

\* 'Not authorized' is being replied to a stranger's text while a permission
\* of the session waits for its button and a teleport is pending
C32_Witness ==
    \E i \in Slots, h \in Handlers :
        /\ upd[i].pc = "refusing"
        /\ upd[i].user = "stranger"
        /\ pending_permission = h
        /\ hpc[h] = "waiting"
        /\ pending_teleport # NoTeleport

\* create_client stores the handle it connected: session.client = client
HandleStored == ConnectOk \/ \E i \in Slots : TeleportConnected(i)

\* C33: when a handle is stored on the session, the session holds no live
\* handle: not when a teleport is taken up by a session that has one, not when
\* two first messages are handled at once
C33_HandleStoredOnlyWhenNone == [][HandleStored => ~client]_vars

\* the /stream connections that are open
OpenConsumers == {c \in Consumers : sse[c].pc # "closed"}

\* C34: the connection count is the number of open consumers, whatever way
\* a consumer ended, and is never negative
C34_CountIsOpenConsumers ==
    /\ _sse_connection_count = Cardinality(OpenConsumers)
    /\ _sse_connection_count >= 0

\* the positions of the events yielded that are final texts
FinalTexts == {k \in 1..Len(yielded) : yielded[k].type = "text" /\ yielded[k].is_final}

\* C35: of the events of one turn at most one is a text with is_final = true;
\* it comes only when the result message was received and it is the last
\* event; a text yielded before a tool call has is_final = false
C35_OneFinalTextLast ==
    /\ Cardinality(FinalTexts) <= 1
    /\ \A k \in FinalTexts :
          /\ k = Len(yielded)
          /\ \E j \in 1..Len(received) : received[j].type \in {"result", "result_error"}
    /\ \A k \in 1..(Len(yielded) - 1) :
          yielded[k].type = "text" /\ yielded[k + 1].type \in {"tool_call", "question"}
              => ~yielded[k].is_final

\* a turn with a text before a tool call and a final text after the result
C35_Witness ==
    /\ Len(yielded) = 3
    /\ yielded[1] = Event("text", FALSE)
    /\ yielded[2].type = "tool_call"
    /\ yielded[3] = Event("text", TRUE)

\* the handler of the permission button press in slot i sets the result of
\* the pending of handler h, or changes the mode
PressResolves(i, h) ==
    /\ upd[i].kind = "callback"
    /\ upd[i].data[1] = "perm"
    /\ upd'[i] # upd[i]
    /\ h = IF upd[i].pc = "arrived" THEN pending_permission ELSE upd[i].ref
    /\ h # 0
    /\ perm'[h].result # perm[h].result \/ permission_mode' # permission_mode

\* the buttons the prompt of the pending of handler h carries
PromptButtons(h) == Buttons(create_permission_keyboard(perm[h].tool_name))

\* C36: a permission button press resolves only the request whose prompt
\* carried the button: the press that sets the result of a pending, or changes
\* the mode for it, is of a button which that pending's prompt has
C36_PressResolvesItsOwnRequest ==
    [][\A i \in Slots, h \in Handlers :
          PressResolves(i, h) => upd[i].data \in PromptButtons(h)]_vars

\* C37: waiting_for_rejection_reason is set only while the session has a
\* pending permission, and it does not stay set when that pending is resolved
\* or cleared or another one takes its place, so that no text becomes the deny
\* reason of a permission on which Reject was not pressed
C37_RejectionFlagFollowsPending ==
    /\ [](waiting_for_rejection_reason => pending_permission # 0)
    /\ [][pending_permission' # pending_permission
              => ~waiting_for_rejection_reason']_vars

\* the handler in slot i goes on to _submit_question_answers: a button press
\* after its 'Selected' edit, or a custom text answer to the last question
SubmitsAnswers(i) ==
    /\ upd'[i] # upd[i]
    /\ \/ /\ upd[i].pc = "q_edit"
          /\ question.current_question_idx >= question.n
       \/ /\ upd[i].kind = "message"
          /\ upd[i].pc \in {"arrived", "teleported"}
          /\ consumed_as(waiting_for_rejection_reason /\ pending_permission # 0,
                         waiting_for_answer /\ pending_question # 0) = "b"
          /\ question.current_question_idx + 1 = question.n

\* C38: while the session has a pending question its cursor is the index of
\* one of the questions, also when two answers to one question are handled
\* at once, and the answers of a pending question are submitted once
C38_CursorInRangeOneSubmit ==
    /\ [](pending_question # 0 => question.current_question_idx \in 0..(question.n - 1))
    /\ [][\A i \in Slots : SubmitsAnswers(i) => pending_question # 0]_vars

\* C39: a consumer is written only events that were put in the queue after
\* it connected; an event put while no consumer was connected, such as the
\* return_to_terminal of a /cc without a terminal, goes to no later consumer
C39_OnlyEventsSinceConnect ==
    [][\A c \in Consumers : StreamGet(c) => sse[c].stale = 0]_vars

\* the handler h is blocked on its pending: the prompt is sent, the event is
\* not set
Blocked(h) == hpc[h] = "waiting" /\ ~perm[h].event

\* C40: a permission handler blocked on a pending is not stranded: the
\* pending is the one session.pending_permission refers to, which a button
\* press reaches, or the handler has been released
C40_BlockedHandlerReachable ==
    \A h \in AllHandlers : Blocked(h) => pending_permission = h

====
